---- MODULE Spec2Model ----
(***************************************************************************)
(* PCB reverse-engineering backend: the detection-merge pipeline of        *)
(* app/services/detector.py (tile slicing, reprojection, IoU, NMS), the    *)
(* connectivity pass and the CircuitGraph of                               *)
(* app/services/schematic_builder.py with the perimeter sampler of         *)
(* app/services/tracer.py, the naming step of app/main.py with the         *)
(* counters of app/services/ocr_service.py, and the handler of /analyze    *)
(* with the files it writes and the temporary tile files of the detector.  *)
(*                                                                         *)
(* Numbers.  Confidences, the NMS thresholds, the overlap ratio, the hit   *)
(* ratio and the track density are in hundredths (0.25 is 25), and a       *)
(* comparison of a quotient with one of them is made on cross products.    *)
(* An IoU is the exact fraction num/den the code divides.                  *)
(* Corner coordinates of a box are kept doubled (x - w/2.0 is 2x - w), so  *)
(* areas are four times the code's; the IoU fraction is unchanged.         *)
(***************************************************************************)
EXTENDS Integers, Sequences, FiniteSets, TLC

(***************************************************************************)
(* detector.py: configuration                                              *)
(***************************************************************************)
CONFIDENCE_THRESHOLD == 25

IOU_THRESHOLD == 40

SLICE_SIZE == 640

OVERLAP_RATIO == 20

SIZE_THRESHOLD == 800

(***************************************************************************)
(* Bounds of the model                                                     *)
(***************************************************************************)
MaxDets == 3

\* the most predictions the inference calls of one detection run return in all
MaxMerged == 2

\* bounding boxes of components are given in steps of 1/Subpixel pixel
Subpixel == 2

\* the most components handed to build_circuit_graph
MaxComps == 3

(***************************************************************************)
(* Python helpers                                                          *)
(***************************************************************************)
\* dict.get(key, default)
Get(d, key, default) == IF key \in DOMAIN d THEN d[key] ELSE default

Max(a, b) == IF a >= b THEN a ELSE b

Min(a, b) == IF a <= b THEN a ELSE b

\* the sequences over S of length 0..n
SeqUpTo(S, n) == UNION {[1..k -> S] : k \in 0..n}

(***************************************************************************)
(* detector.py: _bbox_to_corners, _compute_iou                             *)
(***************************************************************************)
\* corners, doubled: x1 = x_c - w/2.0 becomes 2*x_c - w
bbox_to_corners(pred) ==
    LET x_c == Get(pred, "x", 0)
        y_c == Get(pred, "y", 0)
        w   == Get(pred, "width", 0)
        h   == Get(pred, "height", 0)
    IN  [x1 |-> 2 * x_c - w, y1 |-> 2 * y_c - h,
         x2 |-> 2 * x_c + w, y2 |-> 2 * y_c + h]

\* a float result num/den; raised: the division raised ZeroDivisionError
IouZero == [raised |-> FALSE, num |-> 0, den |-> 1]

IouRaise == [raised |-> TRUE, num |-> 0, den |-> 1]

\* a plausible slip: the union counts area1 twice
compute_iou_area1_twice(pred1, pred2) ==
    LET b1 == bbox_to_corners(pred1)
        b2 == bbox_to_corners(pred2)
        x_left   == Max(b1.x1, b2.x1)
        y_top    == Max(b1.y1, b2.y1)
        x_right  == Min(b1.x2, b2.x2)
        y_bottom == Min(b1.y2, b2.y2)
        intersection_area == (x_right - x_left) * (y_bottom - y_top)
        area1 == (b1.x2 - b1.x1) * (b1.y2 - b1.y1)
        area2 == (b2.x2 - b2.x1) * (b2.y2 - b2.y1)
        union_area == area1 + area1 - intersection_area
    IN  IF x_right <= x_left \/ y_bottom <= y_top THEN IouZero
        ELSE IF area1 <= 0 \/ area2 <= 0 THEN IouZero
        ELSE IF union_area = 0 THEN IouRaise
        ELSE [raised |-> FALSE, num |-> intersection_area, den |-> union_area]

\* a plausible slip: the early return for disjoint boxes is missing
compute_iou_no_overlap_test(pred1, pred2) ==
    LET b1 == bbox_to_corners(pred1)
        b2 == bbox_to_corners(pred2)
        x_left   == Max(b1.x1, b2.x1)
        y_top    == Max(b1.y1, b2.y1)
        x_right  == Min(b1.x2, b2.x2)
        y_bottom == Min(b1.y2, b2.y2)
        intersection_area == (x_right - x_left) * (y_bottom - y_top)
        area1 == (b1.x2 - b1.x1) * (b1.y2 - b1.y1)
        area2 == (b2.x2 - b2.x1) * (b2.y2 - b2.y1)
        union_area == area1 + area2 - intersection_area
    IN  IF area1 <= 0 \/ area2 <= 0 THEN IouZero
        ELSE IF union_area = 0 THEN IouRaise
        ELSE [raised |-> FALSE, num |-> intersection_area, den |-> union_area]

compute_iou(pred1, pred2) ==
    LET b1 == bbox_to_corners(pred1)
        b2 == bbox_to_corners(pred2)
        x_left   == Max(b1.x1, b2.x1)
        y_top    == Max(b1.y1, b2.y1)
        x_right  == Min(b1.x2, b2.x2)
        y_bottom == Min(b1.y2, b2.y2)
        intersection_area == (x_right - x_left) * (y_bottom - y_top)
        area1 == (b1.x2 - b1.x1) * (b1.y2 - b1.y1)
        area2 == (b2.x2 - b2.x1) * (b2.y2 - b2.y1)
        union_area == area1 + area2 - intersection_area
    IN  IF x_right <= x_left \/ y_bottom <= y_top THEN IouZero
        ELSE IF area1 <= 0 \/ area2 <= 0 THEN IouZero
        ELSE IF union_area = 0 THEN IouRaise
        ELSE [raised |-> FALSE, num |-> intersection_area, den |-> union_area]

\* iou >= pct/100 for the fraction iou (both sides multiplied by 100*den^2)
IouGE(iou, pct) == iou.num * iou.den * 100 >= pct * iou.den * iou.den

(***************************************************************************)
(* detector.py: _non_max_suppression                                       *)
(***************************************************************************)
Confidence(p) == Get(p, "confidence", 0)

\* the place list.sort(key=confidence, reverse=True) gives p among the
\* already sorted s: behind every element of confidence >= p's (stable)
RECURSIVE InsertDesc(_, _)
InsertDesc(s, p) ==
    IF s = <<>> THEN <<p>>
    ELSE IF Confidence(Head(s)) >= Confidence(p)
         THEN <<Head(s)>> \o InsertDesc(Tail(s), p)
         ELSE <<p>> \o s

\* a plausible slip: sorted ascending and then reversed, which also
\* reverses the order of equal confidences
RECURSIVE InsertDescTiesReversed(_, _)
InsertDescTiesReversed(s, p) ==
    IF s = <<>> THEN <<p>>
    ELSE IF Confidence(Head(s)) > Confidence(p)
         THEN <<Head(s)>> \o InsertDescTiesReversed(Tail(s), p)
         ELSE <<p>> \o s

\* a plausible slip: reverse=True forgotten, lowest confidence first
RECURSIVE InsertAsc(_, _)
InsertAsc(s, p) ==
    IF s = <<>> THEN <<p>>
    ELSE IF Confidence(Head(s)) <= Confidence(p)
         THEN <<Head(s)>> \o InsertAsc(Tail(s), p)
         ELSE <<p>> \o s

RECURSIVE SortAscending(_)
SortAscending(s) ==
    IF s = <<>> THEN <<>>
    ELSE InsertAsc(SortAscending(SubSeq(s, 1, Len(s) - 1)), s[Len(s)])

RECURSIVE SortTiesReversed(_)
SortTiesReversed(s) ==
    IF s = <<>> THEN <<>>
    ELSE InsertDescTiesReversed(SortTiesReversed(SubSeq(s, 1, Len(s) - 1)), s[Len(s)])

\* preds.sort(key=lambda p: float(p.get("confidence", 0.0)), reverse=True)
RECURSIVE SortByConfidence(_)
SortByConfidence(s) ==
    IF s = <<>> THEN <<>>
    ELSE InsertDesc(SortByConfidence(SubSeq(s, 1, Len(s) - 1)), s[Len(s)])

\* a plausible slip: > where the code has >=
DiscardStrictlyAbove(cand, kept, iou_threshold) ==
    \E k \in 1..Len(kept) :
        LET iou == compute_iou(cand, kept[k])
        IN  iou.num * iou.den * 100 > iou_threshold * iou.den * iou.den

\* the inner loop: cand is discarded when its IoU with a kept one is >= the threshold
Discard(cand, kept, iou_threshold) ==
    \E k \in 1..Len(kept) : IouGE(compute_iou(cand, kept[k]), iou_threshold)

\* the outer loop over the sorted preds, from position i on
RECURSIVE KeepLoop(_, _, _, _)
KeepLoop(preds, i, kept, iou_threshold) ==
    IF i > Len(preds) THEN kept
    ELSE KeepLoop(preds, i + 1,
                  IF Discard(preds[i], kept, iou_threshold)
                  THEN kept ELSE Append(kept, preds[i]),
                  iou_threshold)

\* a plausible slip: > where the code has >=
ConfidenceFilterStrict(predictions, confidence_threshold) ==
    LET Meets(p) == Confidence(p) > confidence_threshold
    IN  SelectSeq(predictions, Meets)

ConfidenceFilter(predictions, confidence_threshold) ==
    LET Meets(p) == Confidence(p) >= confidence_threshold
    IN  SelectSeq(predictions, Meets)

non_max_suppression(predictions, iou_threshold, confidence_threshold) ==
    LET preds == ConfidenceFilter(predictions, confidence_threshold)
    IN  IF preds = <<>> THEN <<>>
        ELSE KeepLoop(SortByConfidence(preds), 1, <<>>, iou_threshold)

(***************************************************************************)
(* detector.py: detect_components                                          *)
(***************************************************************************)
\* a plausible slip: >= where the code has >
should_slice_from_threshold(use_slicing, img_width, img_height) ==
    use_slicing /\ (img_width >= SIZE_THRESHOLD \/ img_height >= SIZE_THRESHOLD)

\* should_slice = use_slicing and (img_width > 800 or img_height > 800)
should_slice(use_slicing, img_width, img_height) ==
    use_slicing /\ (img_width > SIZE_THRESHOLD \/ img_height > SIZE_THRESHOLD)

\* step = int(SLICE_SIZE * (1.0 - OVERLAP_RATIO)), SLICE_SIZE if that is <= 0
step ==
    LET s == (SLICE_SIZE * (100 - OVERLAP_RATIO)) \div 100
    IN  IF s <= 0 THEN SLICE_SIZE ELSE s

\* a plausible slip: range(0, stop - SLICE_SIZE, step), windows that fit only
HasNextWholeWindow(v, stop) == v + step < stop - SLICE_SIZE

\* range(0, stop, step) gives a value after v
HasNext(v, stop) == v + step < stop

\* one pass of the inner loop body up to tile_box: left and top are the loop
\* variables as the pass finds them (top keeps a shift made by an earlier
\* pass of the same row)
tile_box(left, top, img_width, img_height) ==
    LET right  == Min(left + SLICE_SIZE, img_width)
        bottom == Min(top + SLICE_SIZE, img_height)
        left2  == IF right - left < SLICE_SIZE /\ img_width > SLICE_SIZE
                  THEN Max(0, right - SLICE_SIZE) ELSE left
        top2   == IF bottom - top < SLICE_SIZE /\ img_height > SLICE_SIZE
                  THEN Max(0, bottom - SLICE_SIZE) ELSE top
    IN  [left |-> left2, top |-> top2, right |-> right, bottom |-> bottom]

\* a plausible slip: the row offset is added from the wrong variable
merge_prediction_left_twice(pred, left, top) ==
    [k \in DOMAIN pred \cup {"x", "y"} |->
        IF k = "x" THEN Get(pred, "x", 0) + left
        ELSE IF k = "y" THEN Get(pred, "y", 0) + left
        ELSE pred[k]]

\* new_pred = dict(pred); new_pred["x"] = pred.get("x", 0) + left; same for y
merge_prediction(pred, left, top) ==
    [k \in DOMAIN pred \cup {"x", "y"} |->
        IF k = "x" THEN Get(pred, "x", 0) + left
        ELSE IF k = "y" THEN Get(pred, "y", 0) + top
        ELSE pred[k]]

\* the loop over tile_result.get("predictions", [])
merge_predictions(preds, left, top) ==
    [i \in 1..Len(preds) |-> merge_prediction(preds[i], left, top)]

(***************************************************************************)
(* Track masks.  A mask is a numpy array of shape (h, w); the masks of the *)
(* model are white (> 127) on the columns x0 <= x < x1 with                *)
(* x % period < duty of the rows y0 <= y < y1, and black elsewhere.        *)
(***************************************************************************)
ColWhite(mask, x) == mask.x0 <= x /\ x < mask.x1 /\ x % mask.period < mask.duty

RowWhite(mask, y) == mask.y0 <= y /\ y < mask.y1

\* the indices a[lo:hi] selects of an axis of length n: a negative bound
\* counts from the end, and both are clipped to 0..n
SliceBound(v, n) == IF v < 0 THEN Max(v + n, 0) ELSE Min(v, n)

Slice(lo, hi, n) == SliceBound(lo, n)..(SliceBound(hi, n) - 1)

\* np.any(binary_image[ys, xs] > 127)
AnyWhite(mask, xs, ys) ==
    /\ \E x \in xs : ColWhite(mask, x)
    /\ \E y \in ys : RowWhite(mask, y)

\* np.sum(binary_image[ys, xs] > 127)
CountWhite(mask, xs, ys) ==
    Cardinality({x \in xs : ColWhite(mask, x)}) * Cardinality({y \in ys : RowWhite(mask, y)})

\* int(v) of a float v given in steps of 1/Subpixel: truncation towards zero
int(v) == IF v >= 0 THEN v \div Subpixel ELSE -((-v) \div Subpixel)

(***************************************************************************)
(* tracer.py: get_track_mask_at_point, check_track_component_overlap       *)
(***************************************************************************)
POINT_MARGIN == 5

\* a plausible slip: the comparison with 127 the wrong way round, dark
\* pixels taken for track
get_track_mask_at_point_dark(mask, x, y) ==
    LET x_min == Max(0, x - POINT_MARGIN)
        x_max == Min(mask.w, x + POINT_MARGIN)
        y_min == Max(0, y - POINT_MARGIN)
        y_max == Min(mask.h, y + POINT_MARGIN)
    IN  \E xx \in Slice(x_min, x_max, mask.w) : \E yy \in Slice(y_min, y_max, mask.h) :
            ~(ColWhite(mask, xx) /\ RowWhite(mask, yy))

get_track_mask_at_point(mask, x, y) ==
    LET x_min == Max(0, x - POINT_MARGIN)
        x_max == Min(mask.w, x + POINT_MARGIN)
        y_min == Max(0, y - POINT_MARGIN)
        y_max == Min(mask.h, y + POINT_MARGIN)
    IN  AnyWhite(mask, Slice(x_min, x_max, mask.w), Slice(y_min, y_max, mask.h))

\* min_hit_ratio is in hundredths. points_to_check holds sample_points
\* points of each edge, top, bottom, left and right; a point that occurs
\* twice is tested and counted twice
check_track_component_overlap(mask, bbox, sample_points, min_hit_ratio) ==
    LET x_center == int(bbox.x)
        y_center == int(bbox.y)
        width    == int(bbox.width)
        height   == int(bbox.height)
        x1 == x_center - width \div 2
        y1 == y_center - height \div 2
        x2 == x_center + width \div 2
        y2 == y_center + height \div 2
        X(i) == x1 + ((x2 - x1) * i) \div sample_points
        Y(i) == y1 + ((y2 - y1) * i) \div sample_points
        I == 0..(sample_points - 1)
        top_hits    == Cardinality({i \in I : get_track_mask_at_point(mask, X(i), y1)})
        bottom_hits == Cardinality({i \in I : get_track_mask_at_point(mask, X(i), y2)})
        left_hits   == Cardinality({i \in I : get_track_mask_at_point(mask, x1, Y(i))})
        right_hits  == Cardinality({i \in I : get_track_mask_at_point(mask, x2, Y(i))})
        track_hits  == top_hits + bottom_hits + left_hits + right_hits
        points      == 4 * Cardinality(I)
    IN  IF points = 0 THEN FALSE
        ELSE track_hits * 100 >= min_hit_ratio * points

\* a plausible slip: the loop of the bottom edge copied from the top edge
\* with y1 left in place
points_to_check_bottom_at_y1(bbox, sample_points) ==
    LET x_center == int(bbox.x)
        y_center == int(bbox.y)
        width    == int(bbox.width)
        height   == int(bbox.height)
        x1 == x_center - width \div 2
        y1 == y_center - height \div 2
        x2 == x_center + width \div 2
        y2 == y_center + height \div 2
        X(i) == x1 + ((x2 - x1) * i) \div sample_points
        Y(i) == y1 + ((y2 - y1) * i) \div sample_points
    IN  [k \in 1..(4 * sample_points) |->
            LET i == (k - 1) % sample_points
            IN  IF k <= sample_points THEN <<X(i), y1>>
                ELSE IF k <= 2 * sample_points THEN <<X(i), y1>>
                ELSE IF k <= 3 * sample_points THEN <<x1, Y(i)>>
                ELSE <<x2, Y(i)>>]

\* the list points_to_check of check_track_component_overlap after its four
\* loops: the points (x, y) of the top, bottom, left and right edge
points_to_check(bbox, sample_points) ==
    LET x_center == int(bbox.x)
        y_center == int(bbox.y)
        width    == int(bbox.width)
        height   == int(bbox.height)
        x1 == x_center - width \div 2
        y1 == y_center - height \div 2
        x2 == x_center + width \div 2
        y2 == y_center + height \div 2
        X(i) == x1 + ((x2 - x1) * i) \div sample_points
        Y(i) == y1 + ((y2 - y1) * i) \div sample_points
    IN  [k \in 1..(4 * sample_points) |->
            LET i == (k - 1) % sample_points
            IN  IF k <= sample_points THEN <<X(i), y1>>
                ELSE IF k <= 2 * sample_points THEN <<X(i), y2>>
                ELSE IF k <= 3 * sample_points THEN <<x1, Y(i)>>
                ELSE <<x2, Y(i)>>]

(***************************************************************************)
(* schematic_builder.py: are_components_connected, check_track_continuity  *)
(***************************************************************************)
SAMPLE_POINTS == 12

MIN_HIT_RATIO == 35

MAX_CONNECTION_DISTANCE == 140

ROI_MARGIN == 25

DENSITY_THRESHOLD == 40

check_track_continuity(bbox1, bbox2, mask) ==
    LET x1 == int(bbox1.x)
        y1 == int(bbox1.y)
        x2 == int(bbox2.x)
        y2 == int(bbox2.y)
        roi_x1 == Max(0, Min(x1, x2) - ROI_MARGIN)
        roi_y1 == Max(0, Min(y1, y2) - ROI_MARGIN)
        roi_x2 == Min(mask.w, Max(x1, x2) + ROI_MARGIN)
        roi_y2 == Min(mask.h, Max(y1, y2) + ROI_MARGIN)
        xs == Slice(roi_x1, roi_x2, mask.w)
        ys == Slice(roi_y1, roi_y2, mask.h)
        total_pixels == Cardinality(xs) * Cardinality(ys)
        white_pixels == CountWhite(mask, xs, ys)
    IN  IF total_pixels = 0 THEN FALSE
        ELSE white_pixels * 100 > DENSITY_THRESHOLD * total_pixels

\* the squares of both sides of distance < max_connection_distance, in
\* steps of 1/Subpixel
WithinDistance(bbox1, bbox2, max_connection_distance) ==
    (bbox2.x - bbox1.x) * (bbox2.x - bbox1.x) + (bbox2.y - bbox1.y) * (bbox2.y - bbox1.y)
        < (max_connection_distance * Subpixel) * (max_connection_distance * Subpixel)

\* a plausible slip: the 500 px of the earlier version
are_components_connected_500(comp1, comp2, mask) ==
    LET comp1_has_track ==
            check_track_component_overlap(mask, comp1.bbox, SAMPLE_POINTS, MIN_HIT_RATIO)
        comp2_has_track ==
            check_track_component_overlap(mask, comp2.bbox, SAMPLE_POINTS, MIN_HIT_RATIO)
    IN  IF ~(comp1_has_track /\ comp2_has_track) THEN FALSE
        ELSE IF WithinDistance(comp1.bbox, comp2.bbox, 500)
             THEN check_track_continuity(comp1.bbox, comp2.bbox, mask)
             ELSE FALSE

\* a plausible slip: only the first component is asked to touch a track
are_components_connected_first_only(comp1, comp2, mask) ==
    LET comp1_has_track ==
            check_track_component_overlap(mask, comp1.bbox, SAMPLE_POINTS, MIN_HIT_RATIO)
    IN  IF ~comp1_has_track THEN FALSE
        ELSE IF WithinDistance(comp1.bbox, comp2.bbox, MAX_CONNECTION_DISTANCE)
             THEN check_track_continuity(comp1.bbox, comp2.bbox, mask)
             ELSE FALSE

are_components_connected(comp1, comp2, mask) ==
    LET comp1_has_track ==
            check_track_component_overlap(mask, comp1.bbox, SAMPLE_POINTS, MIN_HIT_RATIO)
        comp2_has_track ==
            check_track_component_overlap(mask, comp2.bbox, SAMPLE_POINTS, MIN_HIT_RATIO)
    IN  IF ~(comp1_has_track /\ comp2_has_track) THEN FALSE
        ELSE IF WithinDistance(comp1.bbox, comp2.bbox, MAX_CONNECTION_DISTANCE)
             THEN check_track_continuity(comp1.bbox, comp2.bbox, mask)
             ELSE FALSE

(***************************************************************************)
(* schematic_builder.py: CircuitGraph.  graph is the networkx graph: nodes *)
(* maps a node to its attributes, edges holds the undirected edges {u, v}. *)
(* An identifier is a string, kept as the sequence of its parts.           *)
(***************************************************************************)
NoAttributes == [k \in {} |-> 0]

\* CircuitGraph()
NewCircuitGraph ==
    [nodes |-> [k \in {} |-> NoAttributes], edges |-> {},
     components |-> <<>>, connections |-> <<>>]

\* nx.Graph.add_node(n, **attr): attributes are added to those n has
add_node(nodes, n, attr) ==
    [k \in DOMAIN nodes \cup {n} |->
        IF k # n THEN nodes[k]
        ELSE IF n \in DOMAIN nodes
             THEN [f \in DOMAIN nodes[n] \cup DOMAIN attr |->
                      IF f \in DOMAIN attr THEN attr[f] ELSE nodes[n][f]]
             ELSE attr]

add_component(g, component_id, component_type, bbox) ==
    [g EXCEPT
        !.nodes = add_node(g.nodes, component_id,
                           [component_type |-> component_type, bbox |-> bbox]),
        !.components = Append(g.components,
                              [id |-> component_id, type |-> component_type, bbox |-> bbox])]

\* f"{component1_id} -- {component2_id}"
connection_str(component1_id, component2_id) ==
    component1_id \o <<" -- ">> \o component2_id

\* a plausible slip: an entry is also left out when the list holds the entry
\* of the same two identifiers the other way round
add_connection_skips_reversed(g, component1_id, component2_id) ==
    IF component1_id # component2_id
    THEN [g EXCEPT
            !.nodes = add_node(add_node(g.nodes, component1_id, NoAttributes),
                               component2_id, NoAttributes),
            !.edges = g.edges \cup {{component1_id, component2_id}},
            !.connections =
                IF \E k \in 1..Len(g.connections) :
                       \/ g.connections[k] = connection_str(component1_id, component2_id)
                       \/ g.connections[k] = connection_str(component2_id, component1_id)
                THEN g.connections
                ELSE Append(g.connections, connection_str(component1_id, component2_id))]
    ELSE g

\* a plausible slip: the test "connection_str not in self.connections" is
\* missing
add_connection_always_append(g, component1_id, component2_id) ==
    IF component1_id # component2_id
    THEN [g EXCEPT
            !.nodes = add_node(add_node(g.nodes, component1_id, NoAttributes),
                               component2_id, NoAttributes),
            !.edges = g.edges \cup {{component1_id, component2_id}},
            !.connections =
                Append(g.connections, connection_str(component1_id, component2_id))]
    ELSE g

add_connection(g, component1_id, component2_id) ==
    IF component1_id # component2_id
    THEN [g EXCEPT
            !.nodes = add_node(add_node(g.nodes, component1_id, NoAttributes),
                               component2_id, NoAttributes),
            !.edges = g.edges \cup {{component1_id, component2_id}},
            !.connections =
                IF \E k \in 1..Len(g.connections) :
                       g.connections[k] = connection_str(component1_id, component2_id)
                THEN g.connections
                ELSE Append(g.connections, connection_str(component1_id, component2_id))]
    ELSE g

\* the first loop of build_circuit_graph, from position k on
RECURSIVE add_components(_, _, _)
add_components(g, components, k) ==
    IF k > Len(components) THEN g
    ELSE add_components(
             add_component(g, components[k].id, components[k].type, components[k].bbox),
             components, k + 1)

(***************************************************************************)
(* ocr_service.py: naming.  A text of letters followed by a number without *)
(* leading zeros, as f"R{n}" produces and as OCR may read, is kept as the  *)
(* pair of the two, so that "R1" read by OCR equals the generated "R1".    *)
(***************************************************************************)
Text(prefix, num) == [prefix |-> prefix, num |-> num]

\* the words of the lists of ocr_service.py that occur in class_name.lower()
Keywords(class_name) ==
    CASE class_name = "Resistor" -> {"resistor"}
      [] class_name = "Capacitor" -> {"capacitor"}
      [] class_name = "IC" -> {"ic"}
      [] class_name = "LED" -> {"led"}
      [] OTHER -> {}

should_run_ocr(class_name) ==
    LET ocr_components == {"ic", "chip", "integrated", "circuit", "diode", "led", "transistor"}
        no_ocr_components == {"resistor", "capacitor", "smd"}
    IN  IF Keywords(class_name) \cap ocr_components # {} THEN TRUE
        ELSE IF Keywords(class_name) \cap no_ocr_components # {} THEN FALSE
        ELSE TRUE

CounterKeys == {"resistor", "capacitor", "ic", "diode", "led", "transistor", "unknown"}

\* the dict as the module creates it
InitialCounters == [k \in CounterKeys |-> 0]

\* a plausible slip: the dict is left as it is
reset_counters_forgotten(counters) == counters

reset_counters(counters) == [k \in DOMAIN counters |-> 0]

\* the key and the prefix of the branch get_generic_id takes
GenericBranch(class_name) ==
    LET kw == Keywords(class_name)
    IN  IF "resistor" \in kw THEN [key |-> "resistor", prefix |-> "R"]
        ELSE IF "capacitor" \in kw THEN [key |-> "capacitor", prefix |-> "C"]
        ELSE IF kw \cap {"ic", "chip", "integrated"} # {} THEN [key |-> "ic", prefix |-> "U"]
        ELSE IF "diode" \in kw THEN [key |-> "diode", prefix |-> "D"]
        ELSE IF "led" \in kw THEN [key |-> "led", prefix |-> "LED"]
        ELSE IF "transistor" \in kw THEN [key |-> "transistor", prefix |-> "Q"]
        ELSE [key |-> "unknown", prefix |-> "X"]

\* get_generic_id: the counters after the call and the id returned
get_generic_id(counters, class_name) ==
    LET b == GenericBranch(class_name)
    IN  [counters |-> [counters EXCEPT ![b.key] = counters[b.key] + 1],
         id |-> Text(b.prefix, counters[b.key] + 1)]

(***************************************************************************)
(* State                                                                   *)
(***************************************************************************)
VARIABLES
    \* a caller of _compute_iou: the two predictions, the value returned, and
    \* the value returned for the same two in the other order (None before)
    iouA, iouB, iouRes, iouSwapped,
    \* a caller of _non_max_suppression: its arguments, its position, the list
    \* returned, and the call before this one (how this input came from it)
    nmsIn, nmsIou, nmsConf, nmsPc, nmsOut, nmsPrev,
    \* a run of detect_components: the image size and the use_slicing argument,
    \* the position in the function, the branch taken, the loop variables
    \* (detRow and detCol are the values the two ranges gave, detTop is top),
    \* the inference calls so far (the region sent and the predictions
    \* returned), merged_predictions, and the predictions of the result
    imgW, imgH, useSlicing, detPc, detMode, detRow, detCol, detTop,
    detCalls, detMerged, detResult,
    \* the binary track image
    trackMask,
    \* a caller of are_components_connected: the two components, the value
    \* returned, and the value returned for the two in the other order
    conA, conB, conRes, conSwapped,
    \* a run of build_circuit_graph: its components argument, the position,
    \* the loop indices i and j (from 1), the CircuitGraph, and the calls of
    \* are_components_connected made so far with what they returned
    bldComps, bldPc, bldI, bldJ, bldGraph, bldCalls,
    \* a caller of check_track_component_overlap: the bbox, sample_points and
    \* min_hit_ratio arguments, points_to_check, what get_track_mask_at_point
    \* returned for each of its points, and the value returned
    smpBox, smpN, smpRatio, smpPoints, smpHits, smpRes,
    \* a user of one CircuitGraph: the graph, the calls of add_component and
    \* add_connection made on it so far, and the graph before the last call
    cgGraph, cgOps, cgBefore,
    \* the server process: the module-level dict component_counters of
    \* ocr_service.py, and the requests whose handler the event loop is
    \* executing (one, or none)
    component_counters, loop,
    \* the requests to /analyze, for each: the position of its handler, the
    \* classes of detected_components not yet named, the ids of
    \* components_with_names, the labels get_generic_id returned to it,
    \* component_counters as its naming loop found it, and whether something
    \* else wrote component_counters while it was naming
    namPc, namTodo, namIds, namLabels, namAtStart, namTouched,
    \* two runs of the loop of build_circuit_graph that adds the connections:
    \* the pairs judged connected in the order the loop meets them, another
    \* order of the same pairs (a permutation of the positions), the graph of
    \* each run, and the number of add_connection calls made so far
    ordPairs, ordPerm, ordGiven, ordPermuted, ordK,
    \* the server of main.py: what datetime.now() gives, the handler of
    \* /analyze the event loop is executing (one, or none), and for each
    \* request its upload, the position of its handler, its timestamp, the
    \* paths it wrote, the pipeline steps it ran and the status it answered
    now, anActive, anReq, anPc, anStamp, anWrites, anSteps, anStatus,
    \* the temporary files of a sliced run of detect_components: the number
    \* of tiles of the image, the tile the loop is at and the position in its
    \* pass, the tiles whose temporary file exists, the exception the try
    \* block of the pass raised, and the calls of os.remove so far
    tmpTiles, tmpK, tmpPc, tmpFiles, tmpPending, tmpRemoves

iouVars == <<iouA, iouB, iouRes, iouSwapped>>

nmsVars == <<nmsIn, nmsIou, nmsConf, nmsPc, nmsOut, nmsPrev>>

detVars == <<imgW, imgH, useSlicing, detPc, detMode, detRow, detCol, detTop,
             detCalls, detMerged, detResult>>

conVars == <<conA, conB, conRes, conSwapped>>

bldVars == <<bldComps, bldPc, bldI, bldJ, bldGraph, bldCalls>>

smpVars == <<smpBox, smpN, smpRatio, smpPoints, smpHits, smpRes>>

cgVars == <<cgGraph, cgOps, cgBefore>>

namVars == <<component_counters, loop, namPc, namTodo, namIds, namLabels,
             namAtStart, namTouched>>

ordVars == <<ordPairs, ordPerm, ordGiven, ordPermuted, ordK>>

anVars == <<now, anActive, anReq, anPc, anStamp, anWrites, anSteps, anStatus>>

tmpVars == <<tmpTiles, tmpK, tmpPc, tmpFiles, tmpPending, tmpRemoves>>

lateVars == <<ordVars, anVars, tmpVars>>

moreVars == <<smpVars, cgVars, namVars, lateVars>>

\* the variables of the detection pipeline and the graph construction
pipelineVars == <<iouVars, nmsVars, detVars, conVars, bldVars>>

vars == <<iouVars, nmsVars, detVars, trackMask, conVars, bldVars, moreVars>>

\* the variables of the pipeline, the sampler, the graph and the naming
earlyVars == <<trackMask, pipelineVars, smpVars, cgVars, namVars>>

None == [none |-> TRUE]

(***************************************************************************)
(* Inputs                                                                  *)
(***************************************************************************)
\* boxes of every sign of width and height, on and off each other
IouGeometry ==
    [x : {0, 1, 3}, y : {0, 2}, width : {-4, 0, 5, 7}, height : {-4, 0, 6}]

\* predictions that lack fields (dict.get falls back to 0)
IouPartial ==
    { [x |-> 1, y |-> 2],
      [width |-> 7, height |-> 6],
      [x |-> 3, width |-> 7, height |-> 6],
      [class |-> "Resistor", confidence |-> 90] }

IouInputs == IouGeometry \cup IouPartial

Box(x, c) ==
    [class |-> "Resistor", confidence |-> c, x |-> x, y |-> 0, width |-> 7, height |-> 7]

\* boxes 7 wide: 3 apart the IoU is 4/10, 1 and 2 apart above, 6 apart below
NmsInputs ==
    { Box(x, c) : x \in {0, 1, 3, 6}, c \in {CONFIDENCE_THRESHOLD, 60, 90} }
    \cup { Box(0, CONFIDENCE_THRESHOLD - 5),
           [class |-> "IC", confidence |-> 90, x |-> 0, y |-> 0, width |-> 0, height |-> 7],
           [class |-> "IC", x |-> 3, y |-> 0, width |-> 7, height |-> 7] }

NmsConfThresholds == {CONFIDENCE_THRESHOLD, 60, 95}

NmsIouThresholds == {IOU_THRESHOLD, 50}

(***************************************************************************)
(* Calls of _compute_iou                                                   *)
(***************************************************************************)
IouIdle ==
    /\ iouA = None /\ iouB = None /\ iouRes = None /\ iouSwapped = None

IouInit ==
    /\ iouA \in IouInputs
    /\ iouB \in IouInputs
    /\ iouRes = None
    /\ iouSwapped = None

\* _compute_iou(iouA, iouB)
IouCall ==
    /\ iouRes = None
    /\ iouRes' = compute_iou(iouA, iouB)
    /\ UNCHANGED <<iouA, iouB, iouSwapped, nmsVars, detVars, trackMask, moreVars, conVars, bldVars>>

\* _compute_iou(iouB, iouA), after the call above
IouCallSwapped ==
    /\ iouRes # None
    /\ iouSwapped = None
    /\ iouSwapped' = compute_iou(iouB, iouA)
    /\ UNCHANGED <<iouA, iouB, iouRes, nmsVars, detVars, trackMask, moreVars, conVars, bldVars>>

(***************************************************************************)
(* Calls of _non_max_suppression                                           *)
(***************************************************************************)
NmsIdle ==
    /\ nmsIn = <<>> /\ nmsIou = 0 /\ nmsConf = 0
    /\ nmsPc = "idle" /\ nmsOut = <<>> /\ nmsPrev = None

NmsInit ==
    /\ nmsIn \in SeqUpTo(NmsInputs, MaxDets)
    /\ nmsIou \in NmsIouThresholds
    /\ nmsConf \in NmsConfThresholds
    /\ nmsPc = "ready"
    /\ nmsOut = <<>>
    /\ nmsPrev = None

\* _non_max_suppression(nmsIn, nmsIou, nmsConf)
NmsCall ==
    /\ nmsPc = "ready"
    /\ nmsOut' = non_max_suppression(nmsIn, nmsIou, nmsConf)
    /\ nmsPc' = "done"
    /\ UNCHANGED <<nmsIn, nmsIou, nmsConf, nmsPrev, iouVars, detVars, trackMask, moreVars, conVars, bldVars>>

\* the caller hands the list returned back in, thresholds as before
NmsAgainOnOutput ==
    /\ nmsPc = "done"
    /\ nmsPrev' = [how |-> "output", in |-> nmsIn, conf |-> nmsConf, out |-> nmsOut]
    /\ nmsIn' = nmsOut
    /\ nmsOut' = <<>>
    /\ nmsPc' = "ready"
    /\ UNCHANGED <<nmsIou, nmsConf, iouVars, detVars, trackMask, moreVars, conVars, bldVars>>

\* the caller hands the same list in with a confidence threshold t2 >= t1
NmsAgainRaised ==
    /\ nmsPc = "done"
    /\ \E t2 \in NmsConfThresholds :
          /\ t2 >= nmsConf
          /\ nmsConf' = t2
    /\ nmsPrev' = [how |-> "raised", in |-> nmsIn, conf |-> nmsConf, out |-> nmsOut]
    /\ nmsOut' = <<>>
    /\ nmsPc' = "ready"
    /\ UNCHANGED <<nmsIn, nmsIou, iouVars, detVars, trackMask, moreVars, conVars, bldVars>>

(***************************************************************************)
(* Runs of detect_components                                               *)
(***************************************************************************)
\* image sizes below, at and above the tile size and the slicing threshold,
\* and where the last tile of a row overhangs by a pixel or fits exactly
ImageSizes ==
    {500, SLICE_SIZE, SIZE_THRESHOLD, SIZE_THRESHOLD + 1,
     2 * step + 1, step + SLICE_SIZE}

\* what the model returns for a tile, in tile coordinates; one lacks x
RawInputs ==
    { [class |-> "Resistor", confidence |-> 90, x |-> 10, y |-> 20, width |-> 7, height |-> 7],
      [class |-> "IC", confidence |-> 60, y |-> 23, width |-> 7, height |-> 9],
      [class |-> "LED", confidence |-> 90, x |-> 13, width |-> 7, height |-> 7] }

DetIdle ==
    /\ imgW = 0 /\ imgH = 0 /\ useSlicing = FALSE
    /\ detPc = "idle" /\ detMode = "none"
    /\ detRow = 0 /\ detCol = 0 /\ detTop = 0
    /\ detCalls = <<>> /\ detMerged = <<>> /\ detResult = <<>>

DetInit ==
    /\ imgW \in ImageSizes
    /\ imgH \in ImageSizes
    /\ useSlicing \in BOOLEAN
    /\ detPc = "start" /\ detMode = "none"
    /\ detRow = 0 /\ detCol = 0 /\ detTop = 0
    /\ detCalls = <<>> /\ detMerged = <<>> /\ detResult = <<>>

\* what CLIENT.infer may return: a list of predictions (an answer without
\* the key "predictions" reads as the empty list)
Responses == SeqUpTo(RawInputs, MaxMerged - Len(detMerged))

\* lines 63-86: the image is opened and the branch is chosen
DetectStartSliced ==
    /\ detPc = "start"
    /\ should_slice(useSlicing, imgW, imgH)
    /\ detPc' = "loop"
    /\ detMode' = "sliced"
    /\ detRow' = 0 /\ detCol' = 0 /\ detTop' = 0
    /\ UNCHANGED <<imgW, imgH, useSlicing, detCalls, detMerged, detResult,
                   iouVars, nmsVars, trackMask, moreVars, conVars, bldVars>>

\* lines 89-120: one pass of the inner loop. The tile is cropped, saved and
\* sent to inference, its predictions are merged, and the loops move on
DetectTile ==
    /\ detPc = "loop"
    /\ LET box == tile_box(detCol, detTop, imgW, imgH)
       IN  \E preds \in Responses :
             /\ detCalls' = Append(detCalls, [whole |-> FALSE, box |-> box, preds |-> preds])
             /\ detMerged' = detMerged \o merge_predictions(preds, box.left, box.top)
             /\ IF HasNext(detCol, imgW)
                THEN /\ detCol' = detCol + step
                     /\ detTop' = box.top
                     /\ UNCHANGED <<detRow, detPc>>
                ELSE IF HasNext(detRow, imgH)
                THEN /\ detRow' = detRow + step
                     /\ detTop' = detRow + step
                     /\ detCol' = 0
                     /\ UNCHANGED detPc
                ELSE /\ detPc' = "merged"
                     /\ detTop' = box.top
                     /\ UNCHANGED <<detRow, detCol>>
    /\ UNCHANGED <<imgW, imgH, useSlicing, detMode, detResult, iouVars, nmsVars, trackMask, moreVars, conVars, bldVars>>

\* lines 104-113, 161-163: saving the tile or the inference call raises; the
\* temporary file is removed and the exception leaves detect_components
DetectTileRaises ==
    /\ detPc = "loop"
    /\ detPc' = "raised"
    /\ UNCHANGED <<imgW, imgH, useSlicing, detMode, detRow, detCol, detTop,
                   detCalls, detMerged, detResult, iouVars, nmsVars, trackMask, moreVars, conVars, bldVars>>

\* lines 127-133, 150-159: NMS over the merged predictions
DetectFinishSliced ==
    /\ detPc = "merged"
    /\ detResult' = non_max_suppression(detMerged, IOU_THRESHOLD, CONFIDENCE_THRESHOLD)
    /\ detPc' = "done"
    /\ UNCHANGED <<imgW, imgH, useSlicing, detMode, detRow, detCol, detTop,
                   detCalls, detMerged, iouVars, nmsVars, trackMask, moreVars, conVars, bldVars>>

\* lines 135-159: one inference call on the image file, NMS over its predictions
DetectStandard ==
    /\ detPc = "start"
    /\ ~should_slice(useSlicing, imgW, imgH)
    /\ detMode' = "standard"
    /\ \E preds \in Responses :
          /\ detCalls' = <<[whole |-> TRUE,
                            box |-> [left |-> 0, top |-> 0, right |-> imgW, bottom |-> imgH],
                            preds |-> preds]>>
          /\ detResult' = non_max_suppression(preds, IOU_THRESHOLD, CONFIDENCE_THRESHOLD)
    /\ detPc' = "done"
    /\ UNCHANGED <<imgW, imgH, useSlicing, detRow, detCol, detTop, detMerged,
                   iouVars, nmsVars, trackMask, moreVars, conVars, bldVars>>

\* lines 141, 161-163: the inference call on the image file raises
DetectStandardRaises ==
    /\ detPc = "start"
    /\ ~should_slice(useSlicing, imgW, imgH)
    /\ detMode' = "standard"
    /\ detPc' = "raised"
    /\ UNCHANGED <<imgW, imgH, useSlicing, detRow, detCol, detTop,
                   detCalls, detMerged, detResult, iouVars, nmsVars, trackMask, moreVars, conVars, bldVars>>

(***************************************************************************)
(* Calls of are_components_connected                                       *)
(***************************************************************************)
Px(n) == n * Subpixel

\* the masks are 560 px wide and 200 px high
MaskShape == [w |-> 560, h |-> 200]

Mask(x0, x1, y0, y1, period, duty) ==
    [w |-> MaskShape.w, h |-> MaskShape.h, x0 |-> x0, x1 |-> x1, y0 |-> y0, y1 |-> y1,
     period |-> period, duty |-> duty]

MaskBlack == Mask(0, 0, 0, 0, 1, 1)

MaskWhite == Mask(0, MaskShape.w, 0, MaskShape.h, 1, 1)

\* three columns in five are track
MaskStripes60 == Mask(0, MaskShape.w, 0, MaskShape.h, 5, 3)

\* two columns in five are track
MaskStripes40 == Mask(0, MaskShape.w, 0, MaskShape.h, 5, 2)

\* track on the left 100 columns only
MaskLeft == Mask(0, 100, 0, MaskShape.h, 1, 1)

\* one thin horizontal trace
MaskTrace == Mask(0, MaskShape.w, 28, 33, 1, 1)

Masks == {MaskBlack, MaskWhite, MaskStripes60, MaskStripes40, MaskLeft, MaskTrace}

BBox(x, y, width, height) == [x |-> x, y |-> y, width |-> width, height |-> height]

\* centres 50, just under 140, 140 (along a row and across), and 500 px from
\* the first; one box lies left of the image
ConBoxes ==
    { BBox(Px(30), Px(30), Px(20), Px(20)),
      BBox(Px(80), Px(30), Px(20), Px(20)),
      BBox(Px(80) + 1, Px(30) + 1, Px(31) - 1, Px(11)),
      BBox(Px(170) - 1, Px(30), Px(20), Px(20)),
      BBox(Px(170), Px(30), Px(20), Px(20)),
      BBox(Px(114), Px(142), Px(20), Px(20)),
      BBox(Px(530), Px(30), Px(20), Px(20)),
      BBox(-Px(40), Px(30), Px(20), Px(20)) }

Comp(id, bbox) == [id |-> id, type |-> "Resistor", bbox |-> bbox]

ConIdle ==
    /\ conA = None /\ conB = None /\ conRes = None /\ conSwapped = None

ConInit ==
    /\ conA \in {Comp(<<"R1">>, b) : b \in ConBoxes}
    /\ conB \in {Comp(<<"R2">>, b) : b \in ConBoxes}
    /\ conRes = None
    /\ conSwapped = None

\* are_components_connected(conA, conB, trackMask)
ConCall ==
    /\ conRes = None
    /\ conRes' = [connected |-> are_components_connected(conA, conB, trackMask)]
    /\ UNCHANGED <<conA, conB, conSwapped, trackMask, moreVars, iouVars, nmsVars, detVars, bldVars>>

\* are_components_connected(conB, conA, trackMask), after the call above
ConCallSwapped ==
    /\ conRes # None
    /\ conSwapped = None
    /\ conSwapped' = [connected |-> are_components_connected(conB, conA, trackMask)]
    /\ UNCHANGED <<conA, conB, conRes, trackMask, moreVars, iouVars, nmsVars, detVars, bldVars>>

(***************************************************************************)
(* Runs of build_circuit_graph                                             *)
(***************************************************************************)
BldBoxes ==
    { BBox(Px(30), Px(30), Px(20), Px(20)),
      BBox(Px(80), Px(30), Px(20), Px(20)),
      BBox(Px(170), Px(30), Px(20), Px(20)),
      BBox(Px(530), Px(30), Px(20), Px(20)) }

BldIds == {<<"R1">>, <<"U1">>}

BldMasks == {MaskBlack, MaskWhite, MaskLeft}

BldIdle ==
    /\ bldComps = <<>> /\ bldPc = "idle" /\ bldI = 0 /\ bldJ = 0
    /\ bldGraph = None /\ bldCalls = <<>>

BldInit ==
    /\ bldComps \in SeqUpTo({Comp(id, b) : id \in BldIds, b \in BldBoxes}, MaxComps)
    /\ bldPc = "start"
    /\ bldI = 0 /\ bldJ = 0
    /\ bldGraph = None
    /\ bldCalls = <<>>

\* lines 113-119: the graph is made and every component is added as a node
BuildAddComponents ==
    /\ bldPc = "start"
    /\ bldGraph' = add_components(NewCircuitGraph, bldComps, 1)
    /\ IF bldComps = <<>>
       THEN bldPc' = "done" /\ UNCHANGED <<bldI, bldJ>>
       ELSE bldPc' = "pairs" /\ bldI' = 1 /\ bldJ' = 1
    /\ UNCHANGED <<bldComps, bldCalls, trackMask, moreVars, iouVars, nmsVars, detVars, conVars>>

\* the loops of lines 123-124 move on after the pass for (bldI, bldJ)
BuildAdvance ==
    IF bldJ < Len(bldComps)
    THEN bldJ' = bldJ + 1 /\ UNCHANGED <<bldI, bldPc>>
    ELSE IF bldI < Len(bldComps)
    THEN bldI' = bldI + 1 /\ bldJ' = 1 /\ UNCHANGED bldPc
    ELSE bldPc' = "done" /\ UNCHANGED <<bldI, bldJ>>

\* a plausible slip: only the pair of a component with itself is skipped
skip_pair_self_only(i, j) == i = j

\* if i >= j: continue
skip_pair(i, j) == i >= j

\* lines 125-126: a pass of the inner loop with i >= j does nothing
BuildSkipPair ==
    /\ bldPc = "pairs"
    /\ skip_pair(bldI, bldJ)
    /\ BuildAdvance
    /\ UNCHANGED <<bldComps, bldGraph, bldCalls, trackMask, moreVars, iouVars, nmsVars, detVars, conVars>>

\* lines 128-130: a pass with i < j asks are_components_connected and adds
\* the connection when it says yes
BuildCheckPair ==
    /\ bldPc = "pairs"
    /\ ~skip_pair(bldI, bldJ)
    /\ LET comp1 == bldComps[bldI]
           comp2 == bldComps[bldJ]
           connected == are_components_connected(comp1, comp2, trackMask)
       IN  /\ bldCalls' = Append(bldCalls, [i |-> bldI, j |-> bldJ, connected |-> connected])
           /\ bldGraph' = IF connected
                          THEN add_connection(bldGraph, comp1.id, comp2.id)
                          ELSE bldGraph
    /\ BuildAdvance
    /\ UNCHANGED <<bldComps, trackMask, moreVars, iouVars, nmsVars, detVars, conVars>>

(***************************************************************************)
(* Calls of check_track_component_overlap                                  *)
(***************************************************************************)
\* boxes inside the image, of odd and of zero size, across the left and the
\* top edge of the image, and outside the image on each side
SmpBoxes ==
    { BBox(Px(30), Px(30), Px(20), Px(20)),
      BBox(Px(80) + 1, Px(30) + 1, Px(31) - 1, Px(11)),
      BBox(Px(300), Px(100), 0, Px(40)),
      BBox(Px(8), Px(30), Px(30), Px(20)),
      BBox(Px(300), Px(4), Px(20), Px(20)),
      BBox(-Px(40), Px(30), Px(20), Px(20)),
      BBox(Px(300), -Px(40), Px(20), Px(20)),
      BBox(Px(600), Px(30), Px(20), Px(20)),
      BBox(Px(300), Px(240), Px(20), Px(20)) }

\* sample_points: none, one, three, the default 8 and the 12 of the caller
SmpCounts == {0, 1, 3, 8, SAMPLE_POINTS}

\* min_hit_ratio: the default 0.3, the caller's 0.35, and all points
SmpRatios == {30, MIN_HIT_RATIO, 100}

SmpIdle ==
    /\ smpBox = None /\ smpN = 0 /\ smpRatio = 0
    /\ smpPoints = <<>> /\ smpHits = <<>> /\ smpRes = None

SmpInit ==
    /\ smpBox \in SmpBoxes
    /\ smpN \in SmpCounts
    /\ smpRatio \in SmpRatios
    /\ smpPoints = <<>> /\ smpHits = <<>> /\ smpRes = None

\* check_track_component_overlap(trackMask, smpBox, smpN, smpRatio)
SmpCall ==
    /\ smpRes = None
    /\ LET points == points_to_check(smpBox, smpN)
       IN  /\ smpPoints' = points
           /\ smpHits' = [k \in 1..Len(points) |->
                             get_track_mask_at_point(trackMask, points[k][1], points[k][2])]
    /\ smpRes' = [overlap |-> check_track_component_overlap(trackMask, smpBox, smpN, smpRatio)]
    /\ UNCHANGED <<smpBox, smpN, smpRatio, trackMask, pipelineVars, cgVars, namVars, lateVars>>

(***************************************************************************)
(* Calls on a CircuitGraph                                                 *)
(***************************************************************************)
\* the most calls made on one CircuitGraph
MaxOps == 4

CgIds == {<<"R1">>, <<"U1">>}

CgTypes == {"Resistor", "IC"}

CgBBox == BBox(Px(30), Px(30), Px(20), Px(20))

CgIdle == cgGraph = None /\ cgOps = <<>> /\ cgBefore = None

\* graph = CircuitGraph()
CgInit == cgGraph = NewCircuitGraph /\ cgOps = <<>> /\ cgBefore = None

\* graph.add_component(id, type, bbox); the method has no raise statement
\* and returns None
CgAddComponent ==
    /\ Len(cgOps) < MaxOps
    /\ \E id \in CgIds, type \in CgTypes :
          /\ cgGraph' = add_component(cgGraph, id, type, CgBBox)
          /\ cgOps' = Append(cgOps, [op |-> "add_component", id |-> id, type |-> type,
                                     raised |-> FALSE])
    /\ cgBefore' = cgGraph
    /\ UNCHANGED <<trackMask, pipelineVars, smpVars, namVars, lateVars>>

\* graph.add_connection(a, b)
CgAddConnection ==
    /\ Len(cgOps) < MaxOps
    /\ \E a \in CgIds, b \in CgIds :
          /\ cgGraph' = add_connection(cgGraph, a, b)
          /\ cgOps' = Append(cgOps, [op |-> "add_connection", a |-> a, b |-> b,
                                     raised |-> FALSE])
    /\ cgBefore' = cgGraph
    /\ UNCHANGED <<trackMask, pipelineVars, smpVars, namVars, lateVars>>

(***************************************************************************)
(* main.py: the naming step of analyze_pcb, for the requests to one server *)
(***************************************************************************)
\* the most components detected for one request
MaxNamed == 2

Runs == {"req1", "req2"}

NamClasses == {"Resistor", "IC"}

\* what run_ocr_on_crop may return besides None: "NE555" and "R1"
OcrTexts == {Text("NE", 555), Text("R", 1)}

NamIdle ==
    /\ component_counters = None /\ loop = {}
    /\ namPc = None /\ namTodo = None /\ namIds = None /\ namLabels = None
    /\ namAtStart = None /\ namTouched = None

\* the module is imported, and both requests have arrived
NamInit ==
    /\ component_counters = InitialCounters
    /\ loop = {}
    /\ namPc = [r \in Runs |-> "waiting"]
    /\ namTodo \in [Runs -> SeqUpTo(NamClasses, MaxNamed)]
    /\ namIds = [r \in Runs |-> <<>>]
    /\ namLabels = [r \in Runs |-> <<>>]
    /\ namAtStart = [r \in Runs |-> None]
    /\ namTouched = [r \in Runs |-> FALSE]

\* a plausible slip: the handler declared with def, which the framework
\* runs in a pool of threads, so that handlers run side by side
MayRun_in_threadpool(r) == TRUE

\* analyze_pcb is a coroutine (async def) without an await: the event loop
\* executes the handler of one request from its first line to its return
\* before it turns to another
MayRun(r) == loop \subseteq {r}

\* a write of component_counters by r, as seen by the others that are naming
Touched(r) == [q \in Runs |-> namTouched[q] \/ (q # r /\ namPc[q] = "naming")]

\* lines 123-163: the upload is saved and the components are detected; the
\* handler returns when there are none
NamDetect(r) ==
    /\ MayRun(r)
    /\ namPc[r] = "waiting"
    /\ IF namTodo[r] = <<>>
       THEN namPc' = [namPc EXCEPT ![r] = "done"] /\ loop' = {}
       ELSE namPc' = [namPc EXCEPT ![r] = "detected"] /\ loop' = {r}
    /\ UNCHANGED <<component_counters, namTodo, namIds, namLabels, namAtStart, namTouched,
                   trackMask, pipelineVars, smpVars, cgVars, lateVars>>

\* line 169: ocr_service.reset_counters(), and the naming loop is entered
NamReset(r) ==
    /\ MayRun(r)
    /\ namPc[r] = "detected"
    /\ component_counters' = reset_counters(component_counters)
    /\ namAtStart' = [namAtStart EXCEPT ![r] = reset_counters(component_counters)]
    /\ namTouched' = Touched(r)
    /\ namPc' = [namPc EXCEPT ![r] = "naming"]
    /\ UNCHANGED <<loop, namTodo, namIds, namLabels, trackMask, pipelineVars, smpVars, cgVars, lateVars>>

\* lines 173-182: one pass of the naming loop, get_component_name for the
\* next component: the OCR text when OCR is run and reads one, else the id
\* of get_generic_id
NamOne(r) ==
    /\ MayRun(r)
    /\ namPc[r] = "naming"
    /\ namTodo[r] # <<>>
    /\ LET class_name == Head(namTodo[r])
           generic == get_generic_id(component_counters, class_name)
       IN  \E ocr_result \in OcrTexts \cup {None} :
              IF should_run_ocr(class_name) /\ ocr_result # None
              THEN /\ namIds' = [namIds EXCEPT ![r] = Append(@, ocr_result)]
                   /\ UNCHANGED <<component_counters, namLabels, namTouched>>
              ELSE /\ component_counters' = generic.counters
                   /\ namIds' = [namIds EXCEPT ![r] = Append(@, generic.id)]
                   /\ namLabels' = [namLabels EXCEPT ![r] = Append(@, generic.id)]
                   /\ namTouched' = Touched(r)
    /\ namTodo' = [namTodo EXCEPT ![r] = Tail(@)]
    /\ UNCHANGED <<loop, namPc, namAtStart, trackMask, pipelineVars, smpVars, cgVars, lateVars>>

\* lines 184-265: the rest of the handler, up to its return
NamFinish(r) ==
    /\ MayRun(r)
    /\ namPc[r] = "naming"
    /\ namTodo[r] = <<>>
    /\ namPc' = [namPc EXCEPT ![r] = "done"]
    /\ loop' = {}
    /\ UNCHANGED <<component_counters, namTodo, namIds, namLabels, namAtStart, namTouched,
                   trackMask, pipelineVars, smpVars, cgVars, lateVars>>

(***************************************************************************)
(* The connection loop of build_circuit_graph, in two orders               *)
(***************************************************************************)
\* the most pairs judged connected in one run
MaxPairs == 3

OrdComps ==
    <<Comp(<<"C1">>, CgBBox), Comp(<<"R1">>, CgBBox), Comp(<<"U1">>, CgBBox)>>

\* the pairs (comp1['id'], comp2['id']) handed to add_connection: three
\* different edges, one of them both ways round, and a pair of two
\* components that share an identifier
OrdPairs ==
    { <<<<"C1">>, <<"R1">>>>, <<<<"R1">>, <<"C1">>>>, <<<<"R1">>, <<"U1">>>>,
      <<<<"C1">>, <<"U1">>>>, <<<<"R1">>, <<"R1">>>> }

\* the orders in which n pairs can be inserted
Perms(n) == {f \in [1..n -> 1..n] : \A i, j \in 1..n : f[i] = f[j] => i = j}

OrdIdle ==
    /\ ordPairs = <<>> /\ ordPerm = <<>> /\ ordGiven = None /\ ordPermuted = None
    /\ ordK = 0

\* lines 113-119: both runs start from the graph with every component added
OrdInit ==
    /\ ordPairs \in SeqUpTo(OrdPairs, MaxPairs)
    /\ ordPerm \in Perms(Len(ordPairs))
    /\ ordGiven = add_components(NewCircuitGraph, OrdComps, 1)
    /\ ordPermuted = add_components(NewCircuitGraph, OrdComps, 1)
    /\ ordK = 0

\* line 130, first run: graph.add_connection for the next pair of the list
OrdInsertGiven ==
    /\ ordK < Len(ordPairs)
    /\ LET pair == ordPairs[ordK + 1]
       IN  ordGiven' = add_connection(ordGiven, pair[1], pair[2])
    /\ ordK' = ordK + 1
    /\ UNCHANGED <<ordPairs, ordPerm, ordPermuted, earlyVars, anVars, tmpVars>>

\* line 130, second run: graph.add_connection for the next pair of the
\* other order
OrdInsertPermuted ==
    /\ ordK >= Len(ordPairs)
    /\ ordK < 2 * Len(ordPairs)
    /\ LET pair == ordPairs[ordPerm[ordK - Len(ordPairs) + 1]]
       IN  ordPermuted' = add_connection(ordPermuted, pair[1], pair[2])
    /\ ordK' = ordK + 1
    /\ UNCHANGED <<ordPairs, ordPerm, ordGiven, earlyVars, anVars, tmpVars>>

(***************************************************************************)
(* main.py: analyze_pcb, the requests to /analyze of one server            *)
(***************************************************************************)
\* the last second of the clock
MaxClock == 2

\* file.content_type, split behind the slash; NoHeader is None, a part
\* sent without a Content-Type header
ContentTypes ==
    {<<"image/", "jpeg">>, <<"image/", "png">>, <<"text/", "plain">>, <<"None">>}

NoHeader == <<"None">>

\* os.path.splitext(file.filename)[1]
Extensions == {".jpg", ".png"}

\* file.content_type.startswith('image/')
startswith_image(content_type) == content_type[1] = "image/"

\* datetime.now().strftime("%Y%m%d_%H%M%S"): the fraction of the second is
\* dropped
strftime(t) == t.second

\* os.path.join(directory, f"{prefix}{timestamp}{extension}")
Path(directory, prefix, timestamp, extension) ==
    [directory |-> directory, prefix |-> prefix, timestamp |-> timestamp,
     extension |-> extension]

\* lines 191, 207, 211, 222, in the order they are written
ResultPaths(timestamp) ==
    <<Path("RESULTS_DIR", "tracks_", timestamp, ".png"),
      Path("RESULTS_DIR", "schematic_", timestamp, ".png"),
      Path("RESULTS_DIR", "netlist_", timestamp, ".txt"),
      Path("RESULTS_DIR", "annotated_", timestamp, ".png")>>

\* lines 267-272: except Exception catches whatever the body raised, an
\* HTTPException included, and raises HTTPException(status_code=500)
except_Exception(raised) == 500

AnIdle ==
    /\ now = None /\ anActive = {} /\ anReq = None /\ anPc = None
    /\ anStamp = None /\ anWrites = None /\ anSteps = None /\ anStatus = None

AnInit ==
    /\ now = [second |-> 0, late |-> FALSE]
    /\ anActive = {}
    /\ anReq \in [Runs -> [content_type : ContentTypes, extension : Extensions]]
    /\ anPc = [r \in Runs |-> "waiting"]
    /\ anStamp = [r \in Runs |-> -1]
    /\ anWrites = [r \in Runs |-> {}]
    /\ anSteps = [r \in Runs |-> {}]
    /\ anStatus = [r \in Runs |-> 0]

\* the handler is async def and never awaits: once it is entered the event
\* loop runs nothing else until it returns or raises
AnMayRun(r) == anActive \subseteq {r}

\* the handler of r ends with the given status
AnAnswer(r, status) ==
    /\ anStatus' = [anStatus EXCEPT ![r] = status]
    /\ anPc' = [anPc EXCEPT ![r] = "done"]
    /\ anActive' = {}

\* half a second passes
AnTick ==
    /\ now.second < MaxClock
    /\ now' = IF now.late THEN [second |-> now.second + 1, late |-> FALSE]
                          ELSE [second |-> now.second, late |-> TRUE]
    /\ UNCHANGED <<anActive, anReq, anPc, anStamp, anWrites, anSteps, anStatus,
                   earlyVars, ordVars, tmpVars>>

\* lines 123-128: an upload that is not an image raises HTTPException(400)
\* inside the try block, None.startswith raises AttributeError
AnRejectType(r) ==
    /\ AnMayRun(r)
    /\ anPc[r] = "waiting"
    /\ anReq[r].content_type = NoHeader \/ ~startswith_image(anReq[r].content_type)
    /\ AnAnswer(r, except_Exception(IF anReq[r].content_type = NoHeader
                                    THEN "AttributeError" ELSE "HTTPException 400"))
    /\ UNCHANGED <<now, anReq, anStamp, anWrites, anSteps, earlyVars, ordVars, tmpVars>>

\* lines 123-139: the upload is an image; the timestamp is taken and the
\* upload is saved under it
AnSave(r) ==
    /\ AnMayRun(r)
    /\ anPc[r] = "waiting"
    /\ anReq[r].content_type # NoHeader
    /\ startswith_image(anReq[r].content_type)
    /\ anStamp' = [anStamp EXCEPT ![r] = strftime(now)]
    /\ anWrites' = [anWrites EXCEPT
                       ![r] = {Path("UPLOAD_DIR", "pcb_", strftime(now), anReq[r].extension)}]
    /\ anSteps' = [anSteps EXCEPT ![r] = {"save"}]
    /\ anPc' = [anPc EXCEPT ![r] = "saved"]
    /\ anActive' = {r}
    /\ UNCHANGED <<now, anReq, anStatus, earlyVars, ordVars, tmpVars>>

\* lines 143-163: detection raises, finds nothing (the handler returns 200
\* with empty lists) or finds components
AnDetect(r) ==
    /\ AnMayRun(r)
    /\ anPc[r] = "saved"
    /\ anSteps' = [anSteps EXCEPT ![r] = @ \cup {"detect"}]
    /\ \E outcome \in {"raises", "nothing", "components"} :
          CASE outcome = "raises" -> AnAnswer(r, except_Exception("Exception"))
            [] outcome = "nothing" -> AnAnswer(r, 200)
            [] OTHER -> /\ anPc' = [anPc EXCEPT ![r] = "detected"]
                        /\ UNCHANGED <<anActive, anStatus>>
    /\ UNCHANGED <<now, anReq, anStamp, anWrites, earlyVars, ordVars, tmpVars>>

\* lines 165-265: naming, tracing, graph, schematic, netlist report and
\* annotated image; written result files up to the one a step raised at,
\* all four when none raised
AnFinish(r) ==
    /\ AnMayRun(r)
    /\ anPc[r] = "detected"
    /\ anSteps' = [anSteps EXCEPT ![r] = @ \cup {"name", "trace"}]
    /\ \E written \in 0..Len(ResultPaths(anStamp[r])) :
          /\ anWrites' = [anWrites EXCEPT
                             ![r] = @ \cup {ResultPaths(anStamp[r])[k] : k \in 1..written}]
          /\ AnAnswer(r, IF written = Len(ResultPaths(anStamp[r]))
                          THEN 200 ELSE except_Exception("Exception"))
    /\ UNCHANGED <<now, anReq, anStamp, earlyVars, ordVars, tmpVars>>

(***************************************************************************)
(* detector.py: the temporary file of a tile, lines 103-113                *)
(***************************************************************************)
\* the most tiles of one image
MaxTiles == 4

\* a plausible slip: os.remove follows CLIENT.infer inside the try block,
\* without finally, and is skipped when the block raises
finally_on_success_only(raised) == raised = "nothing"

\* try: ... finally: the finally block runs whether or not the try block
\* raised
finally_runs(raised) == TRUE

TmpIdle ==
    /\ tmpTiles = 0 /\ tmpK = 0 /\ tmpPc = "idle" /\ tmpFiles = {}
    /\ tmpPending = "nothing" /\ tmpRemoves = <<>>

\* lines 89-90: the loops are entered, there is at least one tile
TmpInit ==
    /\ tmpTiles \in 1..MaxTiles
    /\ tmpK = 1
    /\ tmpPc = "crop"
    /\ tmpFiles = {}
    /\ tmpPending = "nothing"
    /\ tmpRemoves = <<>>

\* lines 100-105: the tile is cropped, mkstemp creates its temporary file
\* and the descriptor is closed
TmpCreate ==
    /\ tmpPc = "crop"
    /\ tmpFiles' = tmpFiles \cup {tmpK}
    /\ tmpPc' = "try"
    /\ UNCHANGED <<tmpTiles, tmpK, tmpPending, tmpRemoves, earlyVars, ordVars, anVars>>

\* after the pass: the exception of the try block leaves the loop and the
\* function (lines 161-163), otherwise the predictions are merged and the
\* loops move on or end
TmpAfterPass(raised) ==
    IF raised # "nothing" THEN tmpPc' = "raised" /\ UNCHANGED tmpK
    ELSE IF tmpK < tmpTiles THEN tmpPc' = "crop" /\ tmpK' = tmpK + 1
    ELSE tmpPc' = "returned" /\ UNCHANGED tmpK

\* lines 106-108: tile.save and CLIENT.infer; either may raise
TmpTry ==
    /\ tmpPc = "try"
    /\ \E raised \in {"nothing", "tile.save", "CLIENT.infer"} :
          /\ tmpPending' = raised
          /\ IF finally_runs(raised)
             THEN tmpPc' = "finally" /\ UNCHANGED tmpK
             ELSE TmpAfterPass(raised)
    /\ UNCHANGED <<tmpTiles, tmpFiles, tmpRemoves, earlyVars, ordVars, anVars>>

\* lines 109-113: os.remove(tmp_path) removes the file, or raises OSError,
\* which is passed over
TmpRemove ==
    /\ tmpPc = "finally"
    /\ \E removed \in BOOLEAN :
          /\ tmpFiles' = IF removed THEN tmpFiles \ {tmpK} ELSE tmpFiles
          /\ tmpRemoves' = Append(tmpRemoves, [tile |-> tmpK, removed |-> removed])
    /\ TmpAfterPass(tmpPending)
    /\ UNCHANGED <<tmpTiles, tmpPending, earlyVars, ordVars, anVars>>

LateIdle == OrdIdle /\ AnIdle /\ TmpIdle

MoreIdle == SmpIdle /\ CgIdle /\ NamIdle /\ LateIdle

(***************************************************************************)
(* Specifications                                                          *)
(***************************************************************************)
GraphIdle == trackMask = None /\ ConIdle /\ BldIdle /\ MoreIdle

InitIou == IouInit /\ NmsIdle /\ DetIdle /\ GraphIdle

NextIou == IouCall \/ IouCallSwapped

SpecIou == InitIou /\ [][NextIou]_vars

InitNms == NmsInit /\ IouIdle /\ DetIdle /\ GraphIdle

NextNms == NmsCall \/ NmsAgainOnOutput \/ NmsAgainRaised

SpecNms == InitNms /\ [][NextNms]_vars

\* one call of _non_max_suppression, for the properties of its output
NextNmsCall == NmsCall

SpecNmsCall == InitNms /\ [][NextNmsCall]_vars

InitDetect == DetInit /\ IouIdle /\ NmsIdle /\ GraphIdle

NextDetect ==
    \/ DetectStartSliced
    \/ DetectTile
    \/ DetectTileRaises
    \/ DetectFinishSliced
    \/ DetectStandard
    \/ DetectStandardRaises

SpecDetect == InitDetect /\ [][NextDetect]_vars

InitConnected ==
    /\ trackMask \in Masks
    /\ ConInit
    /\ BldIdle /\ IouIdle /\ NmsIdle /\ DetIdle /\ MoreIdle

NextConnected == ConCall \/ ConCallSwapped

SpecConnected == InitConnected /\ [][NextConnected]_vars

InitBuild ==
    /\ trackMask \in BldMasks
    /\ BldInit
    /\ ConIdle /\ IouIdle /\ NmsIdle /\ DetIdle /\ MoreIdle

NextBuild == BuildAddComponents \/ BuildSkipPair \/ BuildCheckPair

SpecBuild == InitBuild /\ [][NextBuild]_vars

PipelineIdle == IouIdle /\ NmsIdle /\ DetIdle /\ ConIdle /\ BldIdle

InitSampler ==
    trackMask \in Masks /\ SmpInit /\ PipelineIdle /\ CgIdle /\ NamIdle /\ LateIdle

NextSampler == SmpCall

SpecSampler == InitSampler /\ [][NextSampler]_vars

InitGraph ==
    CgInit /\ trackMask = None /\ PipelineIdle /\ SmpIdle /\ NamIdle /\ LateIdle

NextGraph == CgAddComponent \/ CgAddConnection

SpecGraph == InitGraph /\ [][NextGraph]_vars

InitNaming ==
    NamInit /\ trackMask = None /\ PipelineIdle /\ SmpIdle /\ CgIdle /\ LateIdle

NextNaming ==
    \E r \in Runs : NamDetect(r) \/ NamReset(r) \/ NamOne(r) \/ NamFinish(r)

SpecNaming == InitNaming /\ [][NextNaming]_vars

\* everything but the late variables is idle
EarlyIdle == trackMask = None /\ PipelineIdle /\ SmpIdle /\ CgIdle /\ NamIdle

InitOrder == OrdInit /\ EarlyIdle /\ AnIdle /\ TmpIdle

NextOrder == OrdInsertGiven \/ OrdInsertPermuted

SpecOrder == InitOrder /\ [][NextOrder]_vars

InitAnalyze == AnInit /\ EarlyIdle /\ OrdIdle /\ TmpIdle

NextAnalyze ==
    \/ AnTick
    \/ \E r \in Runs : AnRejectType(r) \/ AnSave(r) \/ AnDetect(r) \/ AnFinish(r)

SpecAnalyze == InitAnalyze /\ [][NextAnalyze]_vars

InitTemp == TmpInit /\ EarlyIdle /\ OrdIdle /\ AnIdle

NextTemp == TmpCreate \/ TmpTry \/ TmpRemove

SpecTemp == InitTemp /\ [][NextTemp]_vars

(***************************************************************************)
(* Properties of _compute_iou                                              *)
(***************************************************************************)
Width(p) == Get(p, "width", 0)

Height(p) == Get(p, "height", 0)

PositiveSize(p) == Width(p) > 0 /\ Height(p) > 0

Abs(n) == IF n >= 0 THEN n ELSE -n

\* two boxes of positive size share interior points: their centres are
\* closer than half the sum of their sizes, along both axes
Overlap(a, b) ==
    /\ 2 * Abs(Get(a, "x", 0) - Get(b, "x", 0)) < Width(a) + Width(b)
    /\ 2 * Abs(Get(a, "y", 0) - Get(b, "y", 0)) < Height(a) + Height(b)

\* C4: IoU is symmetric, _compute_iou(a,b) = _compute_iou(b,a), and
\* _compute_iou(a,a) = 1 for every box a of positive width and height.
C4_IouSymmetricReflexive ==
    /\ iouSwapped # None => iouSwapped = iouRes
    /\ (iouRes # None /\ iouA = iouB /\ PositiveSize(iouA)) =>
          (~iouRes.raised /\ iouRes.num = iouRes.den)

C4_Witness ==
    /\ iouSwapped # None
    /\ iouA # iouB
    /\ Width(iouA) # Width(iouB)
    /\ 0 < iouRes.num /\ iouRes.num < iouRes.den
    /\ iouSwapped = iouRes

\* C5: for every pair of boxes, also of zero or negative width or height
\* and with missing fields, _compute_iou raises nothing and returns a value
\* in [0,1]; it returns 0 when either box has non-positive area and when
\* the boxes do not overlap.
C5_IouTotalInUnitRange ==
    iouRes # None =>
        /\ ~iouRes.raised
        /\ iouRes.den > 0
        /\ 0 <= iouRes.num /\ iouRes.num <= iouRes.den
        /\ (Width(iouA) * Height(iouA) <= 0 \/ Width(iouB) * Height(iouB) <= 0)
              => iouRes.num = 0
        /\ (PositiveSize(iouA) /\ PositiveSize(iouB) /\ ~Overlap(iouA, iouB))
              => iouRes.num = 0

C5_Witness ==
    /\ iouRes # None
    /\ "width" \notin DOMAIN iouA
    /\ Width(iouB) < 0
    /\ Height(iouB) = 0
    /\ iouRes = IouZero

(***************************************************************************)
(* Properties of _non_max_suppression                                      *)
(***************************************************************************)
Range(s) == {s[i] : i \in 1..Len(s)}

\* C1: NMS is idempotent: applied to its own output, with the same
\* thresholds, it returns the same detections in the same order.
C1_NmsIdempotent ==
    (nmsPc = "done" /\ nmsPrev # None /\ nmsPrev.how = "output") =>
        nmsOut = nmsPrev.out

C1_Witness ==
    /\ nmsPc = "done" /\ nmsPrev # None /\ nmsPrev.how = "output"
    /\ Len(nmsPrev.in) = 3
    /\ Len(nmsPrev.out) = 2
    /\ Confidence(nmsPrev.out[1]) = Confidence(nmsPrev.out[2])
    /\ nmsOut = nmsPrev.out

\* C2: with the IoU threshold fixed, NMS at a confidence threshold t2 >= t1
\* keeps no more detections of a list than NMS at t1.
C2_NmsConfidenceMonotone ==
    (nmsPc = "done" /\ nmsPrev # None /\ nmsPrev.how = "raised") =>
        Len(nmsOut) <= Len(nmsPrev.out)

C2_Witness ==
    /\ nmsPc = "done" /\ nmsPrev # None /\ nmsPrev.how = "raised"
    /\ nmsConf > nmsPrev.conf
    /\ Len(nmsPrev.out) = 3
    /\ Len(nmsOut) = 1

\* the groups of the claim: at least two detections of the input, all at
\* or above the confidence threshold, every two with IoU >= the threshold
IsGroup(G) ==
    /\ Cardinality(G) >= 2
    /\ \A p \in G : Confidence(p) >= nmsConf
    /\ \A p, q \in G : p # q => IouGE(compute_iou(p, q), nmsIou)

Groups == {G \in SUBSET Range(nmsIn) : IsGroup(G)}

Highest(G) == {p \in G : \A q \in G : Confidence(p) >= Confidence(q)}

KeptOf(G) == {k \in 1..Len(nmsOut) : nmsOut[k] \in G}

\* a group that no further detection of the input can join
IsCluster(G) ==
    /\ IsGroup(G)
    /\ \A p \in Range(nmsIn) \ G : ~IsGroup(G \cup {p})

\* C3 as claimed: of every such group NMS keeps exactly one detection, one
\* of the highest confidence (read for the largest such groups only: a part
\* of a group is not counted as a group of its own).
C3_AsClaimed ==
    nmsPc = "done" =>
        \A G \in Groups :
            IsCluster(G) =>
                /\ Cardinality(KeptOf(G)) = 1
                /\ \A k \in KeptOf(G) : nmsOut[k] \in Highest(G)

\* a kept detection that is not of the group has IoU >= the threshold with p
SuppressedFromOutside(G, p) ==
    \E k \in 1..Len(nmsOut) :
        /\ nmsOut[k] \notin G
        /\ IouGE(compute_iou(p, nmsOut[k]), nmsIou)

\* C3, amended: of every such group NMS keeps at most one detection; it
\* keeps exactly one, of the highest confidence, when some highest-confidence
\* detection of the group overlaps no kept detection from outside the group
\* (as when the group is the whole input).
C3_GroupKeepsHighest ==
    nmsPc = "done" =>
        \A G \in Groups :
            /\ Cardinality(KeptOf(G)) <= 1
            /\ (\E p \in Highest(G) : ~SuppressedFromOutside(G, p)) =>
                  /\ Cardinality(KeptOf(G)) = 1
                  /\ \A k \in KeptOf(G) : nmsOut[k] \in Highest(G)

\* confidences 0.9/0.6/0.25, every two overlapping: only the 0.9 one is kept
C3_Witness ==
    /\ nmsPc = "done"
    /\ nmsConf = CONFIDENCE_THRESHOLD
    /\ nmsIou = IOU_THRESHOLD
    /\ Len(nmsIn) = 3
    /\ Range(nmsIn) \in Groups
    /\ {Confidence(p) : p \in Range(nmsIn)} = {90, 60, CONFIDENCE_THRESHOLD}
    /\ Confidence(nmsIn[3]) = 90
    /\ nmsOut = <<nmsIn[3]>>

(***************************************************************************)
(* Properties of detect_components                                         *)
(***************************************************************************)
\* the number of predictions the calls before call k returned
RECURSIVE ReturnedBefore(_)
ReturnedBefore(k) ==
    IF k <= 1 THEN 0 ELSE ReturnedBefore(k - 1) + Len(detCalls[k - 1].preds)

\* C6: every raw detection of every tile is merged with its centre moved by
\* the (left, top) of the region that was cropped for the tile (after the
\* shift at the edge), a missing x or y counting as 0, and with its width,
\* height, class and confidence as returned.
C6_TileReprojection ==
    detMode = "sliced" =>
        /\ Len(detMerged) = ReturnedBefore(Len(detCalls) + 1)
        /\ \A k \in 1..Len(detCalls) :
             \A i \in 1..Len(detCalls[k].preds) :
                LET raw == detCalls[k].preds[i]
                    box == detCalls[k].box
                    new == detMerged[ReturnedBefore(k) + i]
                IN  /\ DOMAIN new = DOMAIN raw \cup {"x", "y"}
                    /\ new.x = (IF "x" \in DOMAIN raw THEN raw.x ELSE 0) + box.left
                    /\ new.y = (IF "y" \in DOMAIN raw THEN raw.y ELSE 0) + box.top
                    /\ \A f \in DOMAIN raw \ {"x", "y"} : new[f] = raw[f]

\* a tile shifted back at the right and the bottom edge returns a detection without x
C6_Witness ==
    /\ detMode = "sliced"
    /\ \E k \in 1..Len(detCalls) :
          /\ detCalls[k].box.left % step # 0
          /\ detCalls[k].box.top % step # 0
          /\ Len(detCalls[k].preds) = 1
          /\ "x" \notin DOMAIN detCalls[k].preds[1]
          /\ detMerged[ReturnedBefore(k) + 1].x = detCalls[k].box.left

SmallImage == imgW <= SIZE_THRESHOLD /\ imgH <= SIZE_THRESHOLD

C8_AsClaimed ==
    \A k \in 1..Len(detCalls) :
        LET box == detCalls[k].box
        IN  ~detCalls[k].whole =>
              /\ 0 <= box.left /\ box.left < box.right /\ box.right <= imgW
              /\ 0 <= box.top /\ box.top < box.bottom /\ box.bottom <= imgH
              /\ imgW >= SLICE_SIZE => box.right - box.left = SLICE_SIZE
              /\ imgH >= SLICE_SIZE => box.bottom - box.top = SLICE_SIZE

(***************************************************************************)
(* Properties of are_components_connected and build_circuit_graph          *)
(***************************************************************************)
\* C9: connectivity is symmetric: are_components_connected(a, b, mask) and
\* are_components_connected(b, a, mask) return the same.
C9_ConnectedSymmetric ==
    conSwapped # None => conSwapped = conRes

C9_Witness ==
    /\ conSwapped # None
    /\ conA.bbox # conB.bbox
    /\ conRes.connected
    /\ conSwapped.connected

\* the centres of two components are 140 px or more apart
FarApart(c1, c2) ==
    LET dx == c2.bbox.x - c1.bbox.x
        dy == c2.bbox.y - c1.bbox.y
    IN  dx * dx + dy * dy >= (140 * Subpixel) * (140 * Subpixel)

DistinctIds ==
    \A i, j \in 1..Len(bldComps) : i # j => bldComps[i].id # bldComps[j].id

\* C10: two components whose centres are 140 px or more apart are never
\* judged connected, whatever the mask, and build_circuit_graph records no
\* connection for such a pair: every netlist entry and every edge comes
\* from a pair judged connected whose centres are less than 140 px apart,
\* and with distinct identifiers no entry joins the identifiers of a pair
\* 140 px or more apart.
C10_DistanceBound ==
    /\ \A k \in 1..Len(bldCalls) :
          FarApart(bldComps[bldCalls[k].i], bldComps[bldCalls[k].j])
              => ~bldCalls[k].connected
    /\ bldGraph # None =>
          /\ \A n \in 1..Len(bldGraph.connections) :
                \E k \in 1..Len(bldCalls) :
                    LET c1 == bldComps[bldCalls[k].i]
                        c2 == bldComps[bldCalls[k].j]
                    IN  /\ bldCalls[k].connected
                        /\ ~FarApart(c1, c2)
                        /\ bldGraph.connections[n] = c1.id \o <<" -- ">> \o c2.id
          /\ \A e \in bldGraph.edges :
                \E k \in 1..Len(bldCalls) :
                    LET c1 == bldComps[bldCalls[k].i]
                        c2 == bldComps[bldCalls[k].j]
                    IN  ~FarApart(c1, c2) /\ e = {c1.id, c2.id}
          /\ DistinctIds =>
                \A i, j \in 1..Len(bldComps) :
                    FarApart(bldComps[i], bldComps[j]) =>
                        /\ {bldComps[i].id, bldComps[j].id} \notin bldGraph.edges
                        /\ \A n \in 1..Len(bldGraph.connections) :
                              bldGraph.connections[n] #
                                  bldComps[i].id \o <<" -- ">> \o bldComps[j].id

\* on an all-track mask: the first two components, 500 px apart, are not
\* joined, the first and the third, 50 px apart, are
C10_Witness ==
    /\ bldPc = "done"
    /\ trackMask = MaskWhite
    /\ Len(bldComps) = 3
    /\ bldComps[2].bbox.x - bldComps[1].bbox.x = 500 * Subpixel
    /\ bldComps[3].bbox.x - bldComps[1].bbox.x = 50 * Subpixel
    /\ bldComps[1].id # bldComps[3].id
    /\ \E k \in 1..Len(bldCalls) :
          bldCalls[k].i = 1 /\ bldCalls[k].j = 2 /\ ~bldCalls[k].connected
    /\ \E k \in 1..Len(bldCalls) :
          bldCalls[k].i = 1 /\ bldCalls[k].j = 3 /\ bldCalls[k].connected
    /\ bldGraph.connections = <<bldComps[1].id \o <<" -- ">> \o bldComps[3].id>>

\* the pixel a coordinate given in steps of 1/Subpixel falls in
PixelOf(v) == v \div Subpixel

\* the columns (of the centres' x) or rows (of their y) of the image that the
\* rectangle spanning the two centres, expanded by 25 px, covers
RoiClipped(v1, v2, n) ==
    {p \in 0..(n - 1) : Min(PixelOf(v1), PixelOf(v2)) - 25 <= p
                        /\ p < Max(PixelOf(v1), PixelOf(v2)) + 25}

\* track pixels are more than 0.40 of the pixels of that rectangle
RoiDensityAbove40(c1, c2, mask) ==
    LET xs == RoiClipped(c1.bbox.x, c2.bbox.x, mask.w)
        ys == RoiClipped(c1.bbox.y, c2.bbox.y, mask.h)
        track == Cardinality({x \in xs : ColWhite(mask, x)})
                     * Cardinality({y \in ys : RowWhite(mask, y)})
    IN  /\ xs # {} /\ ys # {}
        /\ 100 * track > 40 * Cardinality(xs) * Cardinality(ys)

PassesSampler(c, mask) == check_track_component_overlap(mask, c.bbox, 12, 35)

\* C11 as claimed: are_components_connected returns true exactly when both
\* components pass the overlap sampler (12 samples per edge, hit ratio
\* >= 0.35), the centres are less than 140 px apart, and track pixels are
\* more than 0.40 of the image-clipped rectangle spanning the two centres
\* expanded by 25 px; two components 50 px apart on a mask that is 60% track
\* are connected.
C11_AsClaimed ==
    conRes # None =>
        /\ conRes.connected =
              (/\ PassesSampler(conA, trackMask)
               /\ PassesSampler(conB, trackMask)
               /\ ~FarApart(conA, conB)
               /\ RoiDensityAbove40(conA, conB, trackMask))
        /\ (/\ trackMask = MaskStripes60
            /\ conA.bbox = BBox(Px(30), Px(30), Px(20), Px(20))
            /\ conB.bbox = BBox(Px(80), Px(30), Px(20), Px(20)))
              => conRes.connected

(***************************************************************************)
(* Properties of check_track_component_overlap                             *)
(***************************************************************************)
\* the edges of the box in whole pixels; Left exceeds Right for a box of
\* negative width
Left(bbox) == int(bbox.x) - int(bbox.width) \div 2

Right(bbox) == int(bbox.x) + int(bbox.width) \div 2

Top(bbox) == int(bbox.y) - int(bbox.height) \div 2

Bottom(bbox) == int(bbox.y) + int(bbox.height) \div 2

Between(v, a, b) == Min(a, b) <= v /\ v <= Max(a, b)

OnTopEdge(pt, bbox) == pt[2] = Top(bbox) /\ Between(pt[1], Left(bbox), Right(bbox))

OnBottomEdge(pt, bbox) == pt[2] = Bottom(bbox) /\ Between(pt[1], Left(bbox), Right(bbox))

OnLeftEdge(pt, bbox) == pt[1] = Left(bbox) /\ Between(pt[2], Top(bbox), Bottom(bbox))

OnRightEdge(pt, bbox) == pt[1] = Right(bbox) /\ Between(pt[2], Top(bbox), Bottom(bbox))

\* strictly inside the box
InInterior(pt, bbox) ==
    /\ Min(Left(bbox), Right(bbox)) < pt[1] /\ pt[1] < Max(Left(bbox), Right(bbox))
    /\ Min(Top(bbox), Bottom(bbox)) < pt[2] /\ pt[2] < Max(Top(bbox), Bottom(bbox))

\* a track pixel of the image lies in the square of 5 px around the point:
\* the columns x - 5 .. x + 4 and the rows y - 5 .. y + 4
TrackNear(mask, pt) ==
    /\ \E x \in (pt[1] - 5)..(pt[1] + 4) : 0 <= x /\ x < mask.w /\ ColWhite(mask, x)
    /\ \E y \in (pt[2] - 5)..(pt[2] + 4) : 0 <= y /\ y < mask.h /\ RowWhite(mask, y)

SmpHitCount == Cardinality({k \in 1..Len(smpHits) : smpHits[k]})

\* C12: with n samples per edge check_track_component_overlap tests exactly
\* 4n sample points, n on each of the four edges of the box and none in its
\* interior, a point with a track pixel in the square around it is counted
\* as a hit (and a point at x >= -5 and y >= -5 only then), and the function
\* returns true if and only if hits / (4n) >= min_hit_ratio.
C12_SamplerPerimeter ==
    smpRes # None =>
        /\ Len(smpPoints) = 4 * smpN
        /\ Len(smpHits) = 4 * smpN
        /\ \A k \in 1..Len(smpPoints) :
              /\ k <= smpN => OnTopEdge(smpPoints[k], smpBox)
              /\ (smpN < k /\ k <= 2 * smpN) => OnBottomEdge(smpPoints[k], smpBox)
              /\ (2 * smpN < k /\ k <= 3 * smpN) => OnLeftEdge(smpPoints[k], smpBox)
              /\ 3 * smpN < k => OnRightEdge(smpPoints[k], smpBox)
              /\ ~InInterior(smpPoints[k], smpBox)
              /\ TrackNear(trackMask, smpPoints[k]) => smpHits[k]
              /\ (smpPoints[k][1] >= -5 /\ smpPoints[k][2] >= -5 /\ smpHits[k])
                    => TrackNear(trackMask, smpPoints[k])
        /\ smpN > 0 =>
              (smpRes.overlap <=> 100 * SmpHitCount >= smpRatio * 4 * smpN)

\* 12 samples per edge on a box the thin trace crosses: of the 48 points
\* only 16, on the left and the right edge, hit, too few for 0.35
C12_Witness ==
    /\ smpRes # None
    /\ smpN = SAMPLE_POINTS
    /\ smpRatio = MIN_HIT_RATIO
    /\ trackMask = MaskTrace
    /\ Len(smpPoints) = 48
    /\ SmpHitCount = 16
    /\ \A k \in 1..24 : ~smpHits[k]
    /\ ~smpRes.overlap

(***************************************************************************)
(* Properties on a mask without track                                      *)
(***************************************************************************)
\* no pixel of the mask is track
NoTrack(mask) ==
    ~(/\ \E x \in 0..(mask.w - 1) : ColWhite(mask, x)
      /\ \E y \in 0..(mask.h - 1) : RowWhite(mask, y))

\* C13: on a mask with no track pixels check_track_component_overlap (hit
\* ratio 0.35) returns false for every bounding box, and so
\* are_components_connected returns false for every pair of components, in
\* either order.
C13_BlackMaskNoOverlap ==
    NoTrack(trackMask) =>
        /\ ~check_track_component_overlap(trackMask, conA.bbox, 12, 35)
        /\ ~check_track_component_overlap(trackMask, conB.bbox, 12, 35)
        /\ conRes # None => ~conRes.connected
        /\ conSwapped # None => ~conSwapped.connected

\* two components 50 px apart on the black mask, asked in both orders
C13_Witness ==
    /\ NoTrack(trackMask)
    /\ conB.bbox.x - conA.bbox.x = 50 * Subpixel
    /\ conA.bbox.y = conB.bbox.y
    /\ conRes # None /\ ~conRes.connected
    /\ conSwapped # None /\ ~conSwapped.connected

(***************************************************************************)
(* Properties of CircuitGraph                                              *)
(***************************************************************************)
\* the positions of the netlist (get_netlist returns connections) that hold s
EntriesOf(g, s) == {n \in 1..Len(g.connections) : g.connections[n] = s}

\* the calls made so far that were add_connection(a, b)
CallsOf(a, b) ==
    {k \in 1..Len(cgOps) : cgOps[k].op = "add_connection" /\ cgOps[k].a = a /\ cgOps[k].b = b}

C15_AsClaimed ==
    \A a, b \in CgIds :
        a # b =>
            Cardinality(EntriesOf(cgGraph, connection_str(a, b))
                        \cup EntriesOf(cgGraph, connection_str(b, a))) <= 1

\* the positions of the component list that hold a component with this id
ComponentsOf(g, id) == {n \in 1..Len(g.components) : g.components[n].id = id}

\* C16 as claimed: add_component fails when the identifier is already
\* present: a call of add_component with an id an earlier call added is
\* rejected, and the component list holds at most one component of each id.
C16_AsClaimed ==
    /\ \A k \in 1..Len(cgOps) :
          (/\ cgOps[k].op = "add_component"
           /\ \E j \in 1..(k - 1) :
                 cgOps[j].op = "add_component" /\ cgOps[j].id = cgOps[k].id)
              => cgOps[k].raised
    /\ \A id \in CgIds : Cardinality(ComponentsOf(cgGraph, id)) <= 1

(***************************************************************************)
(* Properties of the naming step                                           *)
(***************************************************************************)
\* C17 as claimed: within one analysis run the identifiers given to the
\* components are pairwise distinct, also when OCR reads the same text on
\* two components or reads a text equal to a generated label.
C17_AsClaimed ==
    \A r \in Runs :
        \A i, j \in 1..Len(namIds[r]) : i # j => namIds[r][i] # namIds[r][j]

Prefixes == {"R", "C", "U", "D", "LED", "Q", "X"}

\* the generated labels of r that carry this prefix, in the order generated
LabelsOf(r, prefix) ==
    LET Carries(label) == label.prefix = prefix
    IN  SelectSeq(namLabels[r], Carries)

\* C18: in every run, whatever runs went before or are pending with it, all
\* counters are zero when the run's naming starts and nothing else writes
\* them until its naming ends, so the k-th generated label of a prefix in a
\* run carries the number k.
C18_CountersPerRun ==
    \A r \in Runs :
        namAtStart[r] # None =>
            /\ namAtStart[r] = [k \in CounterKeys |-> 0]
            /\ ~namTouched[r]
            /\ \A prefix \in Prefixes :
                  \A k \in 1..Len(LabelsOf(r, prefix)) :
                      LabelsOf(r, prefix)[k].num = k

\* both requests done, each with two resistors: R1, R2 in each
C18_Witness ==
    /\ \A r \in Runs :
          /\ namPc[r] = "done"
          /\ namLabels[r] = <<Text("R", 1), Text("R", 2)>>
    /\ component_counters["resistor"] = 2

(***************************************************************************)
(* Properties of failing inference calls                                   *)
(***************************************************************************)
\* C19 as claimed: an inference call that fails for one tile does not abort
\* the run: the run goes on to the other tiles and returns what they
\* detected, and it returns no detections, not an error, when every call
\* fails.
C19_AsClaimed ==
    detMode = "sliced" => detPc # "raised"

(***************************************************************************)
(* Properties on geometry outside the image                                *)
(***************************************************************************)
\* the box, and with it the square of 5 px around every point of its
\* perimeter, lies left of, right of, above or below the image
OutsideImage(bbox, mask) ==
    \/ Max(Left(bbox), Right(bbox)) + 5 <= 0
    \/ Min(Left(bbox), Right(bbox)) - 5 >= mask.w
    \/ Max(Top(bbox), Bottom(bbox)) + 5 <= 0
    \/ Min(Top(bbox), Bottom(bbox)) - 5 >= mask.h

\* C20 as claimed: a sample point counts as a hit only if a track pixel
\* lies within the margin of the point, also at negative coordinates, so
\* that check_track_component_overlap returns false for a box that lies
\* outside the mask; and it returns false with zero samples per edge.
C20_AsClaimed ==
    smpRes # None =>
        /\ \A k \in 1..Len(smpHits) :
              smpHits[k] => TrackNear(trackMask, smpPoints[k])
        /\ OutsideImage(smpBox, trackMask) => ~smpRes.overlap
        /\ smpN = 0 => ~smpRes.overlap

(***************************************************************************)
(* Properties of the connection loop of build_circuit_graph                *)
(***************************************************************************)
\* the netlist entries of a graph, as a set
EntrySet(g) == Range(g.connections)

\* C21: for any collection of pairs judged connected, add_connection called
\* for them in any order leaves the same edge set in the graph: the same
\* nodes, the same undirected edges and the same set of netlist entries.
C21_InsertionOrderIndependent ==
    ordK = 2 * Len(ordPairs) =>
        /\ ordGiven.edges = ordPermuted.edges
        /\ DOMAIN ordGiven.nodes = DOMAIN ordPermuted.nodes
        /\ EntrySet(ordGiven) = EntrySet(ordPermuted)

\* three pairs inserted last first, one of them the reverse of another: two
\* edges, three entries, and the two netlists list them in different orders
C21_Witness ==
    /\ Len(ordPairs) = 3
    /\ ordK = 6
    /\ ordPerm = <<3, 2, 1>>
    /\ Cardinality(ordGiven.edges) = 2
    /\ Len(ordGiven.connections) = 3
    /\ ordGiven.connections # ordPermuted.connections
    /\ ordGiven.edges = ordPermuted.edges

\* the calls of are_components_connected made for the positions i and j,
\* in this order
CallsFor(i, j) == {k \in 1..Len(bldCalls) : bldCalls[k].i = i /\ bldCalls[k].j = j}

\* C22: build_circuit_graph evaluates are_components_connected exactly once
\* for each pair of positions i < j, n(n-1)/2 times for n components, never
\* for a component with itself and never for a pair in both orders.
C22_PairsOnce ==
    LET n == Len(bldComps)
    IN  /\ \A k \in 1..Len(bldCalls) : bldCalls[k].i < bldCalls[k].j
        /\ \A i, j \in 1..n : Cardinality(CallsFor(i, j)) <= 1
        /\ bldPc = "done" =>
              /\ \A i, j \in 1..n : i < j => Cardinality(CallsFor(i, j)) = 1
              /\ 2 * Len(bldCalls) = n * (n - 1)

\* three components, two of them with one identifier: three evaluations
C22_Witness ==
    /\ bldPc = "done"
    /\ Len(bldComps) = MaxComps
    /\ bldComps[1].id = bldComps[MaxComps].id
    /\ 2 * Len(bldCalls) = MaxComps * (MaxComps - 1)
    /\ \E k \in 1..Len(bldCalls) : bldCalls[k].connected

\* the identifiers of the component list
IdsOf(components) == {components[k].id : k \in 1..Len(components)}

\* the two identifiers a netlist entry f"{a} -- {b}" joins
EntryJoins(entry, a, b) == entry = connection_str(a, b)

\* C28 as claimed: after build_circuit_graph, for every component list
\* (also one in which two components share an identifier), every netlist
\* entry joins two identifiers of the component list, and the netlist has
\* as many entries as the underlying undirected graph has edges.
C28_AsClaimed ==
    bldPc = "done" =>
        /\ \A k \in 1..Len(bldGraph.connections) :
              \E a, b \in IdsOf(bldComps) :
                  EntryJoins(bldGraph.connections[k], a, b)
        /\ Len(bldGraph.connections) = Cardinality(bldGraph.edges)

(***************************************************************************)
(* The output of _non_max_suppression                                      *)
(***************************************************************************)
\* how often the detection p occurs in the list s
CountIn(s, p) == Cardinality({k \in 1..Len(s) : s[k] = p})

\* C23: (i) every kept detection is an input detection of confidence >= the
\* confidence threshold, and the filter lets a detection of exactly that
\* confidence through; (ii) every two kept detections have IoU strictly
\* below the IoU threshold; (iii) every input detection that meets the
\* confidence threshold and is not kept has IoU >= the IoU threshold with a
\* kept detection of greater or equal confidence.
C23_NmsOutput ==
    nmsPc = "done" =>
        /\ \A k \in 1..Len(nmsOut) :
              /\ Confidence(nmsOut[k]) >= nmsConf
              /\ CountIn(nmsOut, nmsOut[k]) <= CountIn(nmsIn, nmsOut[k])
        /\ \A k, l \in 1..Len(nmsOut) :
              k # l => ~IouGE(compute_iou(nmsOut[k], nmsOut[l]), nmsIou)
        /\ \A i \in 1..Len(nmsIn) :
              (/\ Confidence(nmsIn[i]) >= nmsConf
               /\ CountIn(nmsOut, nmsIn[i]) < CountIn(nmsIn, nmsIn[i])) =>
                  \E k \in 1..Len(nmsOut) :
                      /\ IouGE(compute_iou(nmsIn[i], nmsOut[k]), nmsIou)
                      /\ Confidence(nmsOut[k]) >= Confidence(nmsIn[i])

\* threshold 0.6: a detection of confidence 0.6 is kept, one of confidence
\* >= 0.6 is suppressed, and one below 0.6 is dropped
C23_Witness ==
    /\ nmsPc = "done"
    /\ nmsConf = 60
    /\ Len(nmsIn) = 3
    /\ \E i \in 1..3 : Confidence(nmsIn[i]) = nmsConf /\ nmsIn[i] \in Range(nmsOut)
    /\ \E i \in 1..3 : Confidence(nmsIn[i]) >= nmsConf /\ nmsIn[i] \notin Range(nmsOut)
    /\ \E i \in 1..3 : Confidence(nmsIn[i]) < nmsConf

\* the positions of S that come before position p in the kept list: those
\* of higher confidence, and those of equal confidence earlier in the input
Ahead(S, p) ==
    {q \in S : \/ Confidence(nmsIn[q]) > Confidence(nmsIn[p])
               \/ Confidence(nmsIn[q]) = Confidence(nmsIn[p]) /\ q < p}

\* the sets of input positions the kept list can be read as: the kept list
\* is the detections at these positions in non-increasing confidence
\* order, equal confidences in input order
KeptSets ==
    {S \in SUBSET (1..Len(nmsIn)) :
        /\ Cardinality(S) = Len(nmsOut)
        /\ \A p \in S : nmsOut[Cardinality(Ahead(S, p)) + 1] = nmsIn[p]}

\* the input detections at i < j meet the confidence threshold, have equal
\* confidence and IoU >= the IoU threshold
EqualOverlapping(i, j) ==
    /\ i < j
    /\ Confidence(nmsIn[i]) >= nmsConf
    /\ Confidence(nmsIn[i]) = Confidence(nmsIn[j])
    /\ IouGE(compute_iou(nmsIn[i], nmsIn[j]), nmsIou)

\* C24 as claimed: the kept list is in non-increasing confidence order with
\* equal confidences in input order, and of two detections of equal
\* confidence with IoU >= the threshold the earlier one of the input is
\* the one kept.
C24_AsClaimed ==
    nmsPc = "done" =>
        \E S \in KeptSets :
            \A i, j \in 1..Len(nmsIn) :
                EqualOverlapping(i, j) => i \in S /\ j \notin S

\* a kept detection other than those at i and j has IoU >= the threshold
\* with the input detection at i
SuppressedByThird(S, i, j) ==
    \E p \in S \ {i, j} : IouGE(compute_iou(nmsIn[i], nmsIn[p]), nmsIou)

\* C24, amended: the kept list is in non-increasing confidence order with
\* equal confidences in input order; of two detections of equal confidence
\* with IoU >= the threshold at most one is kept, and the earlier one is
\* the one kept unless a third kept detection has IoU >= the threshold
\* with it.
C24_OrderAndTieBreak ==
    nmsPc = "done" =>
        \E S \in KeptSets :
            \A i, j \in 1..Len(nmsIn) :
                EqualOverlapping(i, j) =>
                    /\ ~(i \in S /\ j \in S)
                    /\ ~SuppressedByThird(S, i, j) => i \in S /\ j \notin S

\* two detections of confidence 0.6 with IoU >= the threshold ahead of one
\* of confidence 0.9 that overlaps neither: the 0.9 one and the earlier 0.6
\* one are kept, in this order
C24_Witness ==
    /\ nmsPc = "done"
    /\ Len(nmsIn) = 3
    /\ EqualOverlapping(1, 2)
    /\ nmsIn[1] # nmsIn[2]
    /\ Confidence(nmsIn[3]) > Confidence(nmsIn[1])
    /\ nmsOut = <<nmsIn[3], nmsIn[1]>>

(***************************************************************************)
(* The tiles of detect_components                                          *)
(***************************************************************************)
\* the regions sent to inference
TileBoxes == {detCalls[k].box : k \in 1..Len(detCalls)}

\* the pixel (x, y) lies inside the region
Covers(box, x, y) ==
    box.left <= x /\ x < box.right /\ box.top <= y /\ y < box.bottom

\* the columns (rows) at which membership in a region can change: 0 and
\* every left and right (top and bottom) bound inside the image.  Between
\* two of them every pixel lies in the same regions, so that a pixel no
\* region covers exists only if one exists at these columns and rows.
CriticalColumns == {x \in {0} \cup {b.left : b \in TileBoxes} \cup {b.right : b \in TileBoxes} :
                       0 <= x /\ x < imgW}

CriticalRows == {y \in {0} \cup {b.top : b \in TileBoxes} \cup {b.bottom : b \in TileBoxes} :
                    0 <= y /\ y < imgH}

\* the tile loop has run to its end
Sliced == detMode = "sliced" /\ detPc \in {"merged", "done"}

\* C26: whenever an image is sliced, every pixel of the image lies inside
\* at least one tile (checked at the last column and row and at every
\* column and row where a tile begins or ends).
C26_TileCoverage ==
    Sliced =>
        /\ \A x \in CriticalColumns \cup {imgW - 1}, y \in CriticalRows \cup {imgH - 1} :
              \E b \in TileBoxes : Covers(b, x, y)
        /\ \A b \in TileBoxes :
              0 <= b.left /\ b.left < b.right /\ 0 <= b.top /\ b.top < b.bottom

\* 1025 x 1025: the last tile of each row and the last row are shifted back
C26_Witness ==
    /\ Sliced
    /\ imgW = 2 * step + 1 /\ imgH = 2 * step + 1
    /\ Len(detCalls) = 9
    /\ detCalls[9].box = [left |-> imgW - SLICE_SIZE, top |-> imgH - SLICE_SIZE,
                          right |-> imgW, bottom |-> imgH]

\* C27 as claimed: within one sliced run the regions sent to inference are
\* pairwise distinct.
C27_AsClaimed ==
    detMode = "sliced" =>
        \A k, l \in 1..Len(detCalls) :
            k # l => detCalls[k].box # detCalls[l].box

(***************************************************************************)
(* Properties of analyze_pcb                                               *)
(***************************************************************************)
\* C25 as claimed: an upload whose content type does not start with image/
\* is answered with status 400, no file is saved for it and no pipeline
\* step runs for it.
C25_AsClaimed ==
    \A r \in Runs :
        (/\ anPc[r] = "done"
         /\ anReq[r].content_type # NoHeader
         /\ ~startswith_image(anReq[r].content_type)) =>
            /\ anStatus[r] = 400
            /\ anWrites[r] = {}
            /\ anSteps[r] = {}

\* C29 as claimed: two runs never write the same upload or result path,
\* also when they start within the same second.
C29_AsClaimed ==
    \A r1, r2 \in Runs : r1 # r2 => anWrites[r1] \cap anWrites[r2] = {}

(***************************************************************************)
(* Properties of the temporary tile files                                  *)
(***************************************************************************)
\* the tiles whose pass is over: those before the tile the loop is at, and
\* that tile too once the function has returned or raised
PassOver ==
    {k \in 1..tmpTiles : k < tmpK \/ (k = tmpK /\ tmpPc \in {"returned", "raised"})}

\* C30 as claimed: the temporary file of a tile is gone before the next
\* tile is processed and before detect_components returns or raises,
\* whether tile.save or CLIENT.infer succeeds or fails.
C30_AsClaimed == \A k \in PassOver : k \notin tmpFiles

\* the calls of os.remove for the file of tile k
RemovesOf(k) == {n \in 1..Len(tmpRemoves) : tmpRemoves[n].tile = k}

\* C30, amended: before the next tile is processed and before
\* detect_components returns or raises, os.remove has been called once for
\* the temporary file of the tile, whether tile.save or CLIENT.infer
\* succeeded or failed, and the file is gone unless that call raised
\* OSError.
C30_RemovedUnlessRemoveFails ==
    \A k \in PassOver :
        /\ Cardinality(RemovesOf(k)) = 1
        /\ \A n \in RemovesOf(k) : tmpRemoves[n].removed <=> k \notin tmpFiles

\* CLIENT.infer raises on the last of three tiles: the function raises with
\* no temporary file left
C30_Witness ==
    /\ tmpPc = "raised"
    /\ tmpPending = "CLIENT.infer"
    /\ tmpK = MaxTiles
    /\ Len(tmpRemoves) = MaxTiles
    /\ tmpFiles = {}

====
